---------------------------- MODULE Spec2Model ----------------------------
(***************************************************************************)
(* Replication engine of the Dynamo-style key-value store: vector clocks,  *)
(* the per-key local store, and the PUT / GET / replicate / repair_once    *)
(* handlers of a node, for one key replicated on a three-node cluster.     *)
(*                                                                         *)
(* A version is a record [value, vc]; the wall-clock "ts" field of the     *)
(* source takes no part in any comparison, signature or decision of the    *)
(* handlers and is left out.  A vector clock is a function from a set of   *)
(* node ids to counters, as the source's dict is.                          *)
(***************************************************************************)
EXTENDS Integers, Sequences, FiniteSets, TLC

VARIABLES
  store,      \* store[n]: the list _STORE[key] of node n
  ops,        \* ops[o]: the o-th client request (handler position and locals)
  response,   \* the answer of the handler that returned last
  faults,     \* failed RPCs and dead-peer views so far
  created,    \* the versions client PUTs have created so far (history)
  limits,     \* the bounds of the exploration in hand
  idIsAddr,   \* TRUE iff --node_id is the node's ring address
  lastCall,   \* the storage function applied last (store-level specification)
  membership, \* membership[n]: the membership table of node n
  fail_counts,\* fail_counts[n][p]: consecutive failed pings of peer p at node n
  now,        \* the wall clock (time.time())
  loop,       \* loop[n]: position of node n's membership loop (run)
  lastMerge,  \* the _merge applied last (history)
  used,       \* failed pings and gossip exchanges so far
  round       \* the repair round in hand (run_repair_rounds), 0 outside it

memberVars == <<membership, fail_counts, now, loop, lastMerge, used>>

vars == <<store, ops, response, faults, created, limits, idIsAddr, lastCall, memberVars, round>>

---------------------------------------------------------------------------
(* Configuration *)

REPLICATION_FACTOR == 3
READ_QUORUM_R == 2
WRITE_QUORUM_W == 2

\* The ring's walk for the key, over all nodes (the three-node cluster).
PrefList == <<"A", "B", "C">>

Nodes == {PrefList[i] : i \in 1..Len(PrefList)}

\* Bounds of the exploration.
MaxOps == 2
MaxInFlight == 2
MaxFaults == 1
SeqFaults == 3
MaxCounter == 1
MaxListLen == 2
MaxStoreLen == 2
MaxClock == 2
MaxTime == 2
MaxProbeFails == 3
MaxGossip == 2
MaxMembers == 2
MaxIncarnation == 2
MaxStamp == 1
MaxVnodes == 2
MaxN == 4
MaxRounds == 2

---------------------------------------------------------------------------
(* node/vector_clock.py *)

LESS == -1
EQUAL == 0
GREATER == 1
CONCURRENT == 2

EmptyVC == [k \in {} |-> 0]

VCGet(c, k) == IF k \in DOMAIN c THEN c[k] ELSE 0

increment(c, n) ==
  [k \in (DOMAIN c) \cup {n} |-> IF k = n THEN VCGet(c, n) + 1 ELSE c[k]]

\* An update that takes the other clock's counters as they are.
updateOverwrite(c, other) ==
  [k \in (DOMAIN c) \cup (DOMAIN other) |-> IF k \in DOMAIN other THEN other[k] ELSE c[k]]

\* self.update(other): every counter of other is folded in by max; the
\* result is self.clock afterwards.
update(c, other) ==
  [k \in (DOMAIN c) \cup (DOMAIN other) |->
     IF k \in DOMAIN other
     THEN (IF VCGet(c, k) >= other[k] THEN VCGet(c, k) ELSE other[k])
     ELSE c[k]]

\* A comparison that looks only at the keys of its first argument.
compareKeysOfFirst(a, b) ==
  LET keys == DOMAIN a
      a_less == \E k \in keys : VCGet(a, k) < VCGet(b, k)
      b_less == \E k \in keys : VCGet(a, k) > VCGet(b, k)
  IN  IF a_less /\ ~b_less THEN LESS
      ELSE IF b_less /\ ~a_less THEN GREATER
      ELSE IF ~a_less /\ ~b_less THEN EQUAL
      ELSE CONCURRENT

\* A comparison in which one smaller coordinate is enough for LESS.
compareAnyLess(a, b) ==
  LET keys == (DOMAIN a) \cup (DOMAIN b)
      a_less == \E k \in keys : VCGet(a, k) < VCGet(b, k)
      b_less == \E k \in keys : VCGet(a, k) > VCGet(b, k)
  IN  IF a_less THEN LESS
      ELSE IF b_less THEN GREATER
      ELSE EQUAL

compare(a, b) ==
  LET keys == (DOMAIN a) \cup (DOMAIN b)
      a_less == \E k \in keys : VCGet(a, k) < VCGet(b, k)
      b_less == \E k \in keys : VCGet(a, k) > VCGet(b, k)
  IN  IF a_less /\ ~b_less THEN LESS
      ELSE IF b_less /\ ~a_less THEN GREATER
      ELSE IF ~a_less /\ ~b_less THEN EQUAL
      ELSE CONCURRENT

---------------------------------------------------------------------------
(* node/storage.py *)

Version(value, vc) == [value |-> value, vc |-> vc]

_signature(v) == <<v.value, v.vc>>

Range(s) == {s[i] : i \in 1..Len(s)}

\* A dominance loop that drops nothing.
NonDominatedNoPrune(all_versions) == all_versions

\* A dominance loop that tests the last entry only (the candidate of
\* put_local) and keeps every other entry.
NonDominatedCandidateOnly(all_versions) ==
  LET n == Len(all_versions)
  IN  IF n > 0 /\ \E j \in 1..(n-1) : compare(all_versions[n].vc, all_versions[j].vc) = LESS
      THEN SubSeq(all_versions, 1, n - 1)
      ELSE all_versions

\* The dominance loop shared by put_local, merge_remote_versions,
\* _merge_version_lists and repair_once: v is kept unless some w of the list
\* has compare(v, w) = -1 (the "v is w" skip is immaterial: compare(v, v) = 0).
NonDominated(all_versions) ==
  LET dominated(i) == \E j \in 1..Len(all_versions) :
                        j # i /\ compare(all_versions[i].vc, all_versions[j].vc) = LESS
      F[i \in 0..Len(all_versions)] ==
        IF i = 0 THEN << >>
        ELSE IF dominated(i) THEN F[i-1] ELSE Append(F[i-1], all_versions[i])
  IN  F[Len(all_versions)]

\* A "seen" loop that keeps every entry.
DedupeKeepAll(keep) == keep

\* The "seen" loop: the first version of each signature is kept, in order.
Dedupe(keep) ==
  LET F[i \in 0..Len(keep)] ==
        IF i = 0 THEN << >>
        ELSE IF \E j \in 1..(i-1) : _signature(keep[j]) = _signature(keep[i])
             THEN F[i-1] ELSE Append(F[i-1], keep[i])
  IN  F[Len(keep)]

put_local(versions, value, vc) ==
  Dedupe(NonDominated(Append(versions, Version(value, vc))))

\* The value put_local returns: the stored version with the candidate's
\* signature, else the last stored version.
put_local_return(versions, value, vc) ==
  LET unique == put_local(versions, value, vc)
  IN  IF Version(value, vc) \in Range(unique) THEN Version(value, vc)
      ELSE unique[Len(unique)]

get_local_versions(versions) == versions

\* An overwrite that clears the list.
overwrite_local_versions_Empty(versions) == << >>

\* overwrite_local_versions: _STORE[key] = versions.copy().
overwrite_local_versions(versions) == versions

\* merge_remote_versions: the list it stores (overwrite_local_versions(key,
\* unique)) and the list it returns (unique).
merge_remote_versions(local, remote_versions) ==
  overwrite_local_versions(Dedupe(NonDominated(get_local_versions(local) \o remote_versions)))

merge_remote_versions_return(local, remote_versions) ==
  Dedupe(NonDominated(get_local_versions(local) \o remote_versions))


---------------------------------------------------------------------------
(* node/replication.py *)

\* _rpc_get_local: what the coroutine returns for an RPC that was answered
\* 200 with the replica's list ("ok") or that failed (timeout, connection
\* error, non-200: "fail").  "none" tells whether the returned list is None.
_rpc_get_local(outcome, remote) ==
  IF outcome = "ok" THEN [st |-> "ok", none |-> FALSE, vers |-> remote]
  ELSE [st |-> "fail", none |-> FALSE, vers |-> << >>]

\* A merge that prunes dominated versions and keeps duplicates.
_merge_version_listsKeepDuplicates(all_versions) == NonDominated(all_versions)

\* A merge that resolves siblings into one version under the merge of
\* their clocks.
_merge_version_listsResolve(all_versions) ==
  LET keep == Dedupe(NonDominated(all_versions))
      F[i \in 0..Len(keep)] == IF i = 0 THEN EmptyVC ELSE update(F[i-1], keep[i].vc)
  IN  IF Len(keep) > 1 THEN <<Version(keep[1].value, F[Len(keep)])>> ELSE keep

_merge_version_lists(all_versions) == Dedupe(NonDominated(all_versions))

\* Concatenation of the lists returned by the candidates, in candidate order
\* ("vers or []").
Flatten(cands, results) ==
  LET F[i \in 0..Len(cands)] ==
        IF i = 0 THEN << >> ELSE F[i-1] \o results[cands[i]].vers
  IN  F[Len(cands)]

Sigs(l) == {_signature(l[i]) : i \in 1..Len(l)}

\* A quorum read that succeeds only when every candidate answered.
QuorumReadResultAllAnswer(cands, results) ==
  LET responders == SelectSeq(cands, LAMBDA n : results[n].st = "ok")
      ok == Len(responders) = Len(cands)
  IN  [ok |-> ok,
       merged |-> IF ok THEN _merge_version_lists(Flatten(cands, results)) ELSE << >>,
       responders |-> responders,
       rr |-> [n \in Nodes |-> << >>]]

\* quorum_read after the gather: responders, ok, merged and the read-repair
\* tasks it starts (node -> list still to push).
QuorumReadResult(cands, results) ==
  LET responders == SelectSeq(cands, LAMBDA n : ~results[n].none)
      ok == Len(responders) >= READ_QUORUM_R
      merged == IF ok THEN _merge_version_lists(Flatten(cands, results)) ELSE << >>
  IN  [ok |-> ok, merged |-> merged, responders |-> responders,
       rr |-> [n \in Nodes |->
                 IF /\ ok
                    /\ merged # << >>
                    /\ \E i \in 1..Len(cands) : cands[i] = n
                    /\ ~(Sigs(merged) \subseteq Sigs(results[n].vers))
                 THEN merged ELSE << >>]]

---------------------------------------------------------------------------
(* node/node.py *)

\* The preference list of the key filtered by the coordinator's alive set
\* (global_ring.get_replicas(key, N, alive_nodes=alive)).
Candidates(alive) ==
  LET live == SelectSeq(PrefList, LAMBDA n : n \in alive)
  IN  SubSeq(live, 1, IF Len(live) < REPLICATION_FACTOR THEN Len(live) ELSE REPLICATION_FACTOR)

\* put_handler step 2: coordinate-wise max of the parents' clocks.
\* A parent clock that takes the first parent's clock instead of merging.
MergedParentVCFirstOnly(parent_versions) ==
  IF parent_versions = << >> THEN EmptyVC ELSE parent_versions[1].vc

\* put_handler steps 1-2: parent_vc = VectorClock(); parent_vc.update(v.vc)
\* for every parent version (coordinate-wise max).
MergedParentVC(parent_versions) ==
  LET keys == UNION {DOMAIN parent_versions[i].vc : i \in 1..Len(parent_versions)}
      Max(S) == CHOOSE x \in S : \A y \in S : y <= x
  IN  [k \in keys |-> Max({VCGet(parent_versions[i].vc, k) : i \in 1..Len(parent_versions)})]

\* put_handler step 3: parent_vc.increment(NODE_ID).
PutHandlerVC(parent_versions, node_id) ==
  increment(MergedParentVC(parent_versions), node_id)

\* quorum_write's clock: vc = parent_vc.copy(); vc.increment(local_node_id).
QuorumWriteVC(parent_vc, local_node_id) == increment(parent_vc, local_node_id)

\* rpc_targets = [n for n in candidates if n != local_node_id]: an address
\* equals the node id only when the node was started with its address as id.
RpcTargets(cands, coord, sameId) ==
  SelectSeq(cands, LAMBDA n : ~(sameId /\ n = coord))

\* repair_once's target: the candidate after NODE_ID in the full preference
\* list, or the first candidate when NODE_ID is not in the list.
RepairTarget(coord, sameId) ==
  IF sameId /\ coord \in Nodes
  THEN LET my_index == CHOOSE i \in 1..Len(PrefList) : PrefList[i] = coord
       IN  PrefList[(my_index % Len(PrefList)) + 1]
  ELSE PrefList[1]

\* History of a repair_once call: the caller and its target, their lists
\* before the call and when it returned, whether the call began right after
\* another repair_once at the same node had returned, and whether the fetch
\* was answered 200.
NoRepair ==
  [node |-> "A", target |-> "A", before |-> << << >>, << >> >>,
   after |-> << << >>, << >> >>, second |-> FALSE, fetched |-> FALSE]

NoResult == [st |-> "none", none |-> FALSE, vers |-> << >>]

IdleOp ==
  [kind |-> "none", coord |-> "A", pc |-> "idle", cands |-> << >>,
   results |-> [n \in Nodes |-> NoResult],
   ok |-> FALSE, merged |-> << >>, vc |-> EmptyVC, stored_version |-> << >>,
   wst |-> [n \in Nodes |-> "none"], success |-> FALSE,
   rr |-> [n \in Nodes |-> << >>],
   target |-> "A", local_versions |-> << >>, remote_versions |-> << >>,
   todo |-> << >>, pushed |-> 0,
   after |-> {}, sawCreated |-> {}, rrFailed |-> FALSE, repair |-> NoRepair]

NoResponse ==
  [op |-> 0, kind |-> "none", status |-> 0, ok |-> FALSE, versions |-> << >>,
   responders |-> << >>, succeeded |-> << >>, failed |-> << >>, pushed |-> 0,
   answered |-> {}, heard |-> {}, reason |-> "none", repair |-> NoRepair]

---------------------------------------------------------------------------
(* node/hash_ring.py *)

\* A ring is the list of the physical nodes owning its positions, in
\* position order (self._ring with _vnode_map and _vnode_to_node applied);
\* idx is bisect.bisect(self._ring, key_pos).  The alive_nodes argument is
\* [none |-> TRUE] for None, else [none |-> FALSE, nodes |-> the set].

\* An iteration that does not skip nodes already collected.
RingStepNoSeen(ring, idx, N, alive_nodes, st) ==
  IF st.done THEN st
  ELSE IF ~(Len(st.res) < N /\ Len(ring) > 0) THEN [st EXCEPT !.done = TRUE]
  ELSE LET node == ring[(st.i % Len(ring)) + 1]
           i == st.i + 1
       IN  IF ~alive_nodes.none /\ node \notin alive_nodes.nodes
           THEN [res |-> st.res, i |-> i, done |-> i - idx >= Len(ring)]
           ELSE [res |-> Append(st.res, node), i |-> i, done |-> i - idx >= Len(ring)]

\* An iteration that does not look at alive_nodes.
RingStepNoAlive(ring, idx, N, alive_nodes, st) ==
  IF st.done THEN st
  ELSE IF ~(Len(st.res) < N /\ Len(ring) > 0) THEN [st EXCEPT !.done = TRUE]
  ELSE LET node == ring[(st.i % Len(ring)) + 1]
           i == st.i + 1
       IN  IF node \in Range(st.res)
           THEN [res |-> st.res, i |-> i, done |-> i - idx >= Len(ring)]
           ELSE [res |-> Append(st.res, node), i |-> i, done |-> i - idx >= Len(ring)]

\* One iteration of get_replicas' while loop on the locals res and i
\* (seen_nodes is the set of res); done tells that the loop was left.
RingStep(ring, idx, N, alive_nodes, st) ==
  IF st.done THEN st
  ELSE IF ~(Len(st.res) < N /\ Len(ring) > 0) THEN [st EXCEPT !.done = TRUE]
  ELSE LET node == ring[(st.i % Len(ring)) + 1]
           i == st.i + 1
       IN  IF node \in Range(st.res)
           THEN [res |-> st.res, i |-> i, done |-> i - idx >= Len(ring)]
           ELSE IF ~alive_nodes.none /\ node \notin alive_nodes.nodes
           THEN [res |-> st.res, i |-> i, done |-> i - idx >= Len(ring)]
           ELSE [res |-> Append(st.res, node), i |-> i, done |-> i - idx >= Len(ring)]

\* get_replicas followed for up to two revolutions and one more test of
\* the loop condition: the locals when the loop was left (done), or where
\* it still runs.
get_replicas(ring, idx, N, alive_nodes) ==
  IF ring = << >> THEN [res |-> << >>, i |-> idx, done |-> TRUE]
  ELSE LET F[j \in 0..(2 * Len(ring) + 1)] ==
             IF j = 0 THEN [res |-> << >>, i |-> idx, done |-> FALSE]
             ELSE RingStep(ring, idx, N, alive_nodes, F[j-1])
       IN  F[2 * Len(ring) + 1]

---------------------------------------------------------------------------
(* node/membership.py *)

FAIL_THRESHOLD == 3

\* --node_id of the node at address n: the address itself, or the
\* launcher's "node<i>".
NODE_ID(n) ==
  IF idIsAddr THEN n ELSE [A |-> "node0", B |-> "node1", C |-> "node2"][n]

\* self.peers = [p for p in peers if p != self_id].
Peers(n, peers) == {p \in peers : p # NODE_ID(n)}

\* MembershipService.__init__ at time t: self and every peer alive,
\* incarnation 1.
MembershipService(n, peers, t) ==
  [k \in {NODE_ID(n)} \cup Peers(n, peers) |->
     [status |-> "alive", incarnation |-> 1, timestamp |-> t]]

alive_nodes(table) == {k \in DOMAIN table : table[k].status = "alive"}

_mark_dead(table, node, t) ==
  [table EXCEPT ![node] = [@ EXCEPT !.status = "dead", !.timestamp = t]]

\* A _mark_alive that renews the timestamp and leaves the status.
_mark_aliveKeepsStatus(table, node, t) ==
  [table EXCEPT ![node] = [@ EXCEPT !.timestamp = t]]

_mark_alive(table, node, t) ==
  [table EXCEPT ![node] = [@ EXCEPT !.status = "alive", !.timestamp = t]]

\* A merge in which the newer timestamp wins whatever the incarnations.
_mergeNewerTimestamp(local, remote_table) ==
  [k \in (DOMAIN local) \cup (DOMAIN remote_table) |->
     IF k \notin DOMAIN local THEN remote_table[k]
     ELSE IF k \notin DOMAIN remote_table THEN local[k]
     ELSE IF remote_table[k].timestamp > local[k].timestamp THEN remote_table[k]
     ELSE local[k]]

\* _merge: an unknown node's entry is adopted; a known node's entry is
\* replaced when the remote incarnation is higher, or equal with a newer
\* timestamp.
_merge(local, remote_table) ==
  [k \in (DOMAIN local) \cup (DOMAIN remote_table) |->
     IF k \notin DOMAIN local THEN remote_table[k]
     ELSE IF k \notin DOMAIN remote_table THEN local[k]
     ELSE IF remote_table[k].incarnation > local[k].incarnation THEN remote_table[k]
     ELSE IF /\ remote_table[k].incarnation = local[k].incarnation
             /\ remote_table[k].timestamp > local[k].timestamp THEN remote_table[k]
     ELSE local[k]]

\* The launcher starts the nodes one after the other.
StartTime(n) == (CHOOSE i \in 1..Len(PrefList) : PrefList[i] = n) - 1

NoMerge == [node |-> "A", selfDead |-> FALSE, incarnation |-> 1, at |-> 0]

\* The membership services of a cluster started with --all_nodes all_nodes,
\* as constructed, every loop at the start of its first sweep.
MembershipOf(all_nodes) ==
  /\ membership = [n \in all_nodes |-> MembershipService(n, all_nodes, StartTime(n))]
  /\ fail_counts = [n \in all_nodes |-> [p \in Peers(n, all_nodes) |-> 0]]
  /\ now = Cardinality(all_nodes) - 1
  /\ loop = [n \in all_nodes |->
               [pc |-> "probe", pending |-> Peers(n, all_nodes), to |-> "", sent |-> << >>,
                probed |-> FALSE, merged |-> FALSE, running |-> TRUE]]
  /\ lastMerge = NoMerge
  /\ used = [fails |-> 0, gossips |-> 0]

MembershipStart == MembershipOf(Nodes)

\* The cluster as the launcher starts it: empty stores, node ids "node<i>"
\* that are not the ring's addresses.
Init ==
  /\ store = [n \in Nodes |-> << >>]
  /\ ops = [o \in 1..MaxOps |-> IdleOp]
  /\ response = NoResponse
  /\ faults = 0
  /\ created = {}
  /\ limits = [inflight |-> MaxInFlight, faults |-> MaxFaults, crashed |-> {}]
  /\ idIsAddr = FALSE
  /\ MembershipStart
  /\ round = 0
  /\ lastCall = [op |-> "none", clean |-> TRUE]

\* The version a first PUT of value v at coordinator c creates.
FirstVersion(v, c) ==
  [value |-> v, vc |-> QuorumWriteVC(PutHandlerVC(<< >>, c), c), coord |-> c,
   parents |-> << >>, ok |-> TRUE, order |-> 0, before |-> {}]

\* A quiet cluster after an earlier PUT (value 0) at A was replicated to
\* every node; requests are numbered from there.
InitWritten ==
  /\ store = [n \in Nodes |-> <<Version(0, FirstVersion(0, "A").vc)>>]
  /\ ops = [o \in 1..MaxOps |-> IdleOp]
  /\ response = NoResponse
  /\ faults = 0
  /\ created = {FirstVersion(0, "A")}
  /\ limits = [inflight |-> MaxInFlight, faults |-> MaxFaults, crashed |-> {}]
  /\ idIsAddr = FALSE
  /\ MembershipStart
  /\ round = 0
  /\ lastCall = [op |-> "none", clean |-> TRUE]

\* A quiet cluster after two earlier PUTs, at A (value 0) and at B
\* (value -1), ran concurrently and both were replicated to every node:
\* every replica holds the two siblings.  Requests follow one another and
\* up to SeqFaults failures may occur.
InitSiblings ==
  /\ store = [n \in Nodes |->
        IF n = "B"
        THEN <<Version(-1, FirstVersion(-1, "B").vc), Version(0, FirstVersion(0, "A").vc)>>
        ELSE <<Version(0, FirstVersion(0, "A").vc), Version(-1, FirstVersion(-1, "B").vc)>>]
  /\ ops = [o \in 1..MaxOps |-> IdleOp]
  /\ response = NoResponse
  /\ faults = 0
  /\ created = {FirstVersion(0, "A"), [FirstVersion(-1, "B") EXCEPT !.order = -1]}
  /\ limits = [inflight |-> 1, faults |-> SeqFaults, crashed |-> {}]
  /\ idIsAddr = FALSE
  /\ MembershipStart
  /\ round = 0
  /\ lastCall = [op |-> "none", clean |-> TRUE]

\* An empty cluster in which one of the three nodes has crashed and stays
\* unreachable; requests follow one another.
InitCrash ==
  /\ store = [n \in Nodes |-> << >>]
  /\ ops = [o \in 1..MaxOps |-> IdleOp]
  /\ response = NoResponse
  /\ faults = 0
  /\ created = {}
  /\ limits \in {[inflight |-> 1, faults |-> MaxFaults, crashed |-> {n}] : n \in Nodes}
  /\ idIsAddr = FALSE
  /\ MembershipStart
  /\ round = 0
  /\ lastCall = [op |-> "none", clean |-> TRUE]

\* Requests whose handler, background read-repair tasks or timed-out
\* replicate requests are still at work.
InFlight ==
  {o \in DOMAIN ops :
     \/ ops[o].pc \notin {"idle", "done"}
     \/ \E n \in Nodes : ops[o].rr[n] # << >> \/ ops[o].wst[n] = "late"}

Done == {o \in DOMAIN ops : ops[o].pc = "done"}

\* A client request is taken in hand by node c: requests are numbered in the
\* order in which their handlers start.
CanStart(o) ==
  /\ ops[o].pc = "idle"
  /\ IF o = 1 THEN TRUE ELSE ops[o-1].pc # "idle"
  /\ Cardinality(InFlight) < limits.inflight

\* One more failure of the environment (a failed RPC, a peer held dead).
Fault ==
  /\ faults < limits.faults
  /\ faults' = faults + 1

\* An RPC to node n fails: always when n has crashed, otherwise as one more
\* failure of the environment.
FaultAt(n) == IF n \in limits.crashed THEN faults' = faults ELSE Fault

\* The alive sets a coordinator's membership table can hold when a request
\* arrives: any set of addresses may be dead, its own too (a gossip merge
\* can bring in a peer's dead record of it).
AliveViews(c) == SUBSET Nodes

\* put_handler / get_handler up to the gather of quorum_read: the candidates
\* are computed and one get_local RPC per candidate is in flight.
StartRead(o, kind, c, alive) ==
  /\ CanStart(o)
  /\ c \notin limits.crashed
  /\ IF alive \in {Nodes, Nodes \ limits.crashed} THEN faults' = faults ELSE Fault
  /\ ops' = [ops EXCEPT ![o] =
       [@ EXCEPT !.kind = kind, !.coord = c, !.pc = "read",
                 !.cands = Candidates(alive),
                 !.results = [n \in Nodes |->
                    IF \E i \in 1..Len(Candidates(alive)) : Candidates(alive)[i] = n
                    THEN [NoResult EXCEPT !.st = "pending"] ELSE NoResult],
                 !.after = Done]]
  /\ UNCHANGED <<store, response, created, limits, idIsAddr, lastCall, memberVars, round>>

ClientPut(o, c, alive) == StartRead(o, "put", c, alive)

ClientGet(o, c, alive) == StartRead(o, "get", c, alive)

\* History: the values of the versions created so far.
CreatedValues == {x.value : x \in created}

\* History: the version the PUT numbered o created.
CreatedBy(o) == CHOOSE x \in created : x.value = o

\* History: the candidates whose get_local RPC returned a version list.
Answered(op) == {n \in Nodes : op.results[n].st = "ok"}

\* One get_local RPC of a quorum read is answered by replica n.
GetLocalReply(o, n) ==
  /\ ops[o].pc = "read"
  /\ ops[o].results[n].st = "pending"
  /\ n \notin limits.crashed
  /\ ops' = [ops EXCEPT ![o].results[n] = _rpc_get_local("ok", get_local_versions(store[n])),
                         ![o].sawCreated = CreatedValues]
  /\ UNCHANGED <<store, response, faults, created, limits, idIsAddr, lastCall, memberVars, round>>

\* One get_local RPC to a peer fails (timeout, connection error, non-200).
GetLocalFail(o, n) ==
  /\ ops[o].pc = "read"
  /\ ops[o].results[n].st = "pending"
  /\ n # ops[o].coord
  /\ FaultAt(n)
  /\ ops' = [ops EXCEPT ![o].results[n] = _rpc_get_local("fail", << >>),
                         ![o].sawCreated = CreatedValues]
  /\ UNCHANGED <<store, response, created, limits, idIsAddr, lastCall, memberVars, round>>

ReadComplete(o) ==
  /\ ops[o].pc = "read"
  /\ \A n \in Nodes : ops[o].results[n].st # "pending"

\* What a handler keeps once it has returned: the background tasks it left
\* and, of a PUT, the version it created.
Returned(op) ==
  [IdleOp EXCEPT !.kind = op.kind, !.coord = op.coord, !.pc = "done",
                 !.success = op.success, !.rr = op.rr, !.after = op.after,
                 !.rrFailed = op.rrFailed,
                 !.wst = [n \in Nodes |-> IF op.wst[n] = "late" THEN "late" ELSE "none"]]

\* get_handler after the gather: quorum_read's merge and local overwrite,
\* then the answer (200 with the merged list, or 503).
GetDone(o) ==
  /\ ReadComplete(o)
  /\ ops[o].kind = "get"
  /\ LET r == QuorumReadResult(ops[o].cands, ops[o].results)
     IN  /\ ops' = [ops EXCEPT ![o] = Returned([@ EXCEPT !.ok = r.ok, !.rr = r.rr])]
         /\ response' = [NoResponse EXCEPT !.op = o, !.kind = "get", !.ok = r.ok,
                            !.status = IF r.ok THEN 200 ELSE 503,
                            !.versions = r.merged, !.responders = r.responders,
                            !.answered = Answered(ops[o]),
                            !.heard = Range(Flatten(ops[o].cands, ops[o].results))]
         /\ store' = IF r.ok
                     THEN [store EXCEPT ![ops[o].coord] = overwrite_local_versions(r.merged)]
                     ELSE store
  /\ UNCHANGED <<faults, created, limits, idIsAddr, lastCall, memberVars, round>>

\* put_handler after the gather of the parent read, up to the gather of
\* quorum_write: merge and local overwrite of the read, the new clock, the
\* local put_local, and one replicate RPC per target in flight.  "merged"
\* keeps the parent versions (empty when the read failed).
PutWrite(o) ==
  /\ ReadComplete(o)
  /\ ops[o].kind = "put"
  /\ LET r == QuorumReadResult(ops[o].cands, ops[o].results)
         c == ops[o].coord
         parent_versions == IF r.ok THEN r.merged ELSE << >>
         parent_vc == PutHandlerVC(parent_versions, c)
         vc == QuorumWriteVC(parent_vc, c)
         local == IF r.ok THEN overwrite_local_versions(r.merged) ELSE store[c]
         targets == RpcTargets(ops[o].cands, c, idIsAddr)
     IN  /\ ops' = [ops EXCEPT ![o] =
               [@ EXCEPT !.pc = "write", !.ok = r.ok, !.merged = parent_versions,
                         !.rr = r.rr, !.vc = vc,
                         !.stored_version = <<put_local_return(local, o, vc)>>,
                         !.results = [n \in Nodes |->
                            [NoResult EXCEPT !.none = ~(\E i \in 1..Len(r.responders) : r.responders[i] = n),
                                             !.st = IF ops[o].results[n].st = "ok" THEN "ok" ELSE "none"]],
                         !.wst = [n \in Nodes |->
                            IF \E i \in 1..Len(targets) : targets[i] = n
                            THEN "pending" ELSE "none"]]]
         /\ store' = [store EXCEPT ![c] = put_local(local, o, vc)]
         /\ created' = created \cup
               {[value |-> o, vc |-> vc, coord |-> c, parents |-> parent_versions,
                 ok |-> r.ok, order |-> Cardinality(created) + 1,
                 before |-> ops[o].sawCreated]}
  /\ UNCHANGED <<response, faults, limits, idIsAddr, lastCall, memberVars, round>>

\* replicate_endpoint at n for a replicate RPC of quorum_write: put_local,
\* answered 200 in time.
ReplicateDeliver(o, n) ==
  /\ ops[o].pc = "write"
  /\ ops[o].wst[n] = "pending"
  /\ n \notin limits.crashed
  /\ store' = [store EXCEPT ![n] = put_local(@, o, ops[o].vc)]
  /\ ops' = [ops EXCEPT ![o].wst[n] = "ok"]
  /\ UNCHANGED <<response, faults, created, limits, idIsAddr, lastCall, memberVars, round>>

\* A replicate RPC fails at the coordinator: the request never reaches the
\* replica (lost = TRUE), or the RPC times out while the request is still on
\* its way or being served (lost = FALSE; the replica may apply it at any
\* later moment, also before the coordinator goes on).
ReplicateFail(o, n, lost) ==
  /\ ops[o].pc = "write"
  /\ ops[o].wst[n] = "pending"
  /\ n \in limits.crashed => lost
  /\ FaultAt(n)
  /\ ops' = [ops EXCEPT ![o].wst[n] = IF lost THEN "fail" ELSE "late"]
  /\ UNCHANGED <<store, response, created, limits, idIsAddr, lastCall, memberVars, round>>

\* A replicate request that timed out at the coordinator is applied by the
\* replica afterwards.
ReplicateLate(o, n) ==
  /\ ops[o].wst[n] = "late"
  /\ store' = [store EXCEPT ![n] = put_local(@, o, CreatedBy(o).vc)]
  /\ ops' = [ops EXCEPT ![o].wst[n] = IF ops[o].pc = "done" THEN "none" ELSE "fail"]
  /\ UNCHANGED <<response, faults, created, limits, idIsAddr, lastCall, memberVars, round>>

\* quorum_write after the gather, and put_handler's answer.
PutDone(o) ==
  /\ ops[o].pc = "write"
  /\ \A n \in Nodes : ops[o].wst[n] # "pending"
  /\ LET targets == RpcTargets(ops[o].cands, ops[o].coord, idIsAddr)
         succeeded == Append(SelectSeq(targets, LAMBDA n : ops[o].wst[n] = "ok"), ops[o].coord)
         failed == SelectSeq(targets, LAMBDA n : ops[o].wst[n] # "ok")
         success == Len(succeeded) >= WRITE_QUORUM_W
     IN  /\ ops' = [ops EXCEPT ![o] = Returned([@ EXCEPT !.success = success])]
         /\ response' = [NoResponse EXCEPT !.op = o, !.kind = "put", !.status = 200,
                            !.ok = success, !.versions = ops[o].stored_version,
                            !.responders = SelectSeq(ops[o].cands, LAMBDA n : ~ops[o].results[n].none),
                            !.succeeded = succeeded, !.failed = failed,
                            !.answered = Answered(ops[o])]
  /\ UNCHANGED <<store, faults, created, limits, idIsAddr, lastCall, memberVars, round>>

\* One push of a background read-repair task (_repair_target): the next
\* merged version is sent to node n by a replicate RPC; a failed push is
\* ignored and the task goes on.
ReadRepairPush(o, n, delivered) ==
  /\ ops[o].rr[n] # << >>
  /\ IF delivered
     THEN /\ n \notin limits.crashed
          /\ store' = [store EXCEPT ![n] = put_local(@, Head(ops[o].rr[n]).value, Head(ops[o].rr[n]).vc)]
          /\ faults' = faults
     ELSE /\ store' = store
          /\ FaultAt(n)
  /\ ops' = [ops EXCEPT ![o].rr[n] = Tail(@),
                         ![o].rrFailed = @ \/ ~delivered]
  /\ UNCHANGED <<response, created, limits, idIsAddr, lastCall, memberVars, round>>

\* History of the repair_once call op, returning with the lists st.
RepairHistory(op, st, fetched) ==
  [op.repair EXCEPT !.after = <<st[op.coord], st[op.target]>>, !.fetched = fetched]

\* repair_once_endpoint up to the fetch of the target's versions: the target
\* is chosen and the local list is read.
RepairStart(o, c) ==
  /\ ops' = [ops EXCEPT ![o] =
       [@ EXCEPT !.kind = "repair", !.coord = c, !.pc = "fetch",
                 !.target = RepairTarget(c, idIsAddr),
                 !.local_versions = get_local_versions(store[c]),
                 !.after = Done,
                 !.repair = [NoRepair EXCEPT
                    !.node = c, !.target = RepairTarget(c, idIsAddr),
                    !.before = <<store[c], store[RepairTarget(c, idIsAddr)]>>,
                    !.second = response.kind = "repair" /\ response.repair.node = c]]]
  /\ UNCHANGED <<store, response, faults, created, limits, idIsAddr, lastCall, memberVars, round>>

\* A client's POST /repair_once/{key} is taken in hand by node c.
RepairOnce(o, c) ==
  /\ CanStart(o)
  /\ c \notin limits.crashed
  /\ RepairStart(o, c)

\* A failed fetch after which the local list is overwritten with nothing
\* before the handler answers.
RepairFetchFailOverwrites(o) ==
  /\ ops[o].pc = "fetch"
  /\ FaultAt(ops[o].target)
  /\ ops' = [ops EXCEPT ![o] = Returned(@)]
  /\ store' = [store EXCEPT ![ops[o].coord] = << >>]
  /\ response' = [NoResponse EXCEPT !.op = o, !.kind = "repair", !.status = 200, !.ok = FALSE,
                     !.reason = "target_unreachable",
                     !.repair = RepairHistory(ops[o], store', FALSE)]
  /\ UNCHANGED <<created, limits, idIsAddr, lastCall, memberVars, round>>

\* The fetch raised: the handler answers ok = False, target_unreachable.
RepairFetchFail(o) ==
  /\ ops[o].pc = "fetch"
  /\ FaultAt(ops[o].target)
  /\ ops' = [ops EXCEPT ![o] = Returned(@)]
  /\ response' = [NoResponse EXCEPT !.op = o, !.kind = "repair", !.status = 200, !.ok = FALSE,
                     !.reason = "target_unreachable",
                     !.repair = RepairHistory(ops[o], store, FALSE)]
  /\ UNCHANGED <<store, created, limits, idIsAddr, lastCall, memberVars, round>>

\* The target answers the fetch, 200 with the list it holds at that moment
\* or another status (read as an empty list); the answer travels back while
\* both nodes go on serving other requests.
RepairFetchReply(o, is200) ==
  /\ ops[o].pc = "fetch"
  /\ ops[o].target \notin limits.crashed
  /\ IF is200 THEN faults' = faults ELSE Fault
  /\ ops' = [ops EXCEPT ![o] =
       [@ EXCEPT !.pc = "fetched",
                 !.remote_versions = IF is200 THEN get_local_versions(store[ops[o].target])
                                     ELSE << >>,
                 !.repair.fetched = is200]]
  /\ UNCHANGED <<store, response, created, limits, idIsAddr, lastCall, memberVars, round>>

\* The handler resumes with the fetched list: merge without dedupe,
\* overwrite the local list, and push the kept versions to the target one
\* by one.
RepairFetched(o) ==
  /\ ops[o].pc = "fetched"
  /\ LET keep == NonDominated(ops[o].local_versions \o ops[o].remote_versions)
     IN  /\ store' = [store EXCEPT ![ops[o].coord] = overwrite_local_versions(keep)]
         /\ IF keep = << >>
            THEN /\ ops' = [ops EXCEPT ![o] = Returned([@ EXCEPT !.ok = TRUE])]
                 /\ response' = [NoResponse EXCEPT !.op = o, !.kind = "repair",
                                    !.status = 200, !.ok = TRUE,
                                    !.repair = RepairHistory(ops[o], store', ops[o].repair.fetched)]
            ELSE /\ ops' = [ops EXCEPT ![o] =
                       [@ EXCEPT !.pc = "push", !.ok = TRUE, !.merged = keep, !.todo = keep,
                                 !.local_versions = << >>, !.remote_versions = << >>]]
                 /\ response' = response
  /\ UNCHANGED <<faults, created, limits, idIsAddr, lastCall, memberVars, round>>

\* One push of repair_once: the replicate RPC is answered (the version is
\* applied at the target and counted), or it raises and ends the loop.
RepairPush(o, answered) ==
  /\ ops[o].pc = "push"
  /\ LET last == ~answered \/ Len(ops[o].todo) = 1
         pushed == IF answered THEN ops[o].pushed + 1 ELSE ops[o].pushed
     IN  /\ IF answered
            THEN /\ ops[o].target \notin limits.crashed
                 /\ store' = [store EXCEPT ![ops[o].target] =
                                put_local(@, Head(ops[o].todo).value, Head(ops[o].todo).vc)]
                 /\ faults' = faults
            ELSE /\ store' = store
                 /\ FaultAt(ops[o].target)
         /\ ops' = [ops EXCEPT ![o] =
                IF last THEN Returned(@)
                ELSE [@ EXCEPT !.todo = Tail(@), !.pushed = pushed]]
         /\ response' = IF last
                        THEN [NoResponse EXCEPT !.op = o, !.kind = "repair", !.status = 200,
                                 !.ok = TRUE, !.versions = ops[o].merged, !.pushed = pushed,
                                 !.repair = RepairHistory(ops[o], store', ops[o].repair.fetched)]
                        ELSE response
  /\ UNCHANGED <<created, limits, idIsAddr, lastCall, memberVars, round>>

Next ==
  \/ \E o \in 1..MaxOps, c \in Nodes : \E alive \in AliveViews(c) : ClientPut(o, c, alive)
  \/ \E o \in 1..MaxOps, c \in Nodes : \E alive \in AliveViews(c) : ClientGet(o, c, alive)
  \/ \E o \in 1..MaxOps, n \in Nodes : GetLocalReply(o, n)
  \/ \E o \in 1..MaxOps, n \in Nodes : GetLocalFail(o, n)
  \/ \E o \in 1..MaxOps : GetDone(o)
  \/ \E o \in 1..MaxOps : PutWrite(o)
  \/ \E o \in 1..MaxOps, n \in Nodes : ReplicateDeliver(o, n)
  \/ \E o \in 1..MaxOps, n \in Nodes, lost \in BOOLEAN : ReplicateFail(o, n, lost)
  \/ \E o \in 1..MaxOps, n \in Nodes : ReplicateLate(o, n)
  \/ \E o \in 1..MaxOps : PutDone(o)
  \/ \E o \in 1..MaxOps, n \in Nodes, delivered \in BOOLEAN : ReadRepairPush(o, n, delivered)
  \/ \E o \in 1..MaxOps, c \in Nodes : RepairOnce(o, c)
  \/ \E o \in 1..MaxOps : RepairFetchFail(o)
  \/ \E o \in 1..MaxOps, is200 \in BOOLEAN : RepairFetchReply(o, is200)
  \/ \E o \in 1..MaxOps : RepairFetched(o)
  \/ \E o \in 1..MaxOps, answered \in BOOLEAN : RepairPush(o, answered)

Spec == Init /\ [][Next]_vars

SpecWritten == InitWritten /\ [][Next]_vars

SpecSiblings == InitSiblings /\ [][Next]_vars

SpecCrash == InitCrash /\ [][Next]_vars

---------------------------------------------------------------------------
(* Store-level specification: the three storage functions applied to one   *)
(* key's list (node "A") with arbitrary arguments.                         *)

StoreValues == {1, 2}
StoreIds == {"A", "B"}
ArgVCs == UNION {[S -> 0..MaxCounter] : S \in SUBSET StoreIds}
ArgVersions == {Version(v, c) : v \in StoreValues, c \in ArgVCs}
ArgLists == UNION {[1..n -> ArgVersions] : n \in 0..MaxListLen}

\* No two versions of the list compare LESS.
NoLessPair(l) ==
  \A i, j \in 1..Len(l) : compare(l[i].vc, l[j].vc) # LESS

\* No two positions of the list hold the same signature.
NoDuplicate(l) ==
  \A i, j \in 1..Len(l) : i # j => _signature(l[i]) # _signature(l[j])

\* The store-level specification starts from the same empty store.
InitStore ==
  /\ store = [n \in Nodes |-> << >>]
  /\ ops = << >>
  /\ response = NoResponse
  /\ faults = 0
  /\ created = {}
  /\ limits = [inflight |-> 0, faults |-> 0, crashed |-> {}]
  /\ idIsAddr = FALSE
  /\ MembershipStart
  /\ round = 0
  /\ lastCall = [op |-> "none", clean |-> TRUE]

StorePutLocal(value, vc) ==
  /\ Len(put_local(store["A"], value, vc)) <= MaxStoreLen
  /\ store' = [store EXCEPT !["A"] = put_local(@, value, vc)]
  /\ lastCall' = [op |-> "put_local", clean |-> TRUE]
  /\ UNCHANGED <<ops, response, faults, created, limits, idIsAddr, memberVars, round>>

StoreMergeRemote(remote_versions) ==
  /\ Len(merge_remote_versions(store["A"], remote_versions)) <= MaxStoreLen
  /\ store' = [store EXCEPT !["A"] = merge_remote_versions(@, remote_versions)]
  /\ lastCall' = [op |-> "merge_remote_versions", clean |-> TRUE]
  /\ UNCHANGED <<ops, response, faults, created, limits, idIsAddr, memberVars, round>>

StoreOverwrite(versions) ==
  /\ store' = [store EXCEPT !["A"] = overwrite_local_versions(versions)]
  /\ lastCall' = [op |-> "overwrite_local_versions", clean |-> NoLessPair(versions)]
  /\ UNCHANGED <<ops, response, faults, created, limits, idIsAddr, memberVars, round>>

NextStore ==
  \/ \E v \in StoreValues, c \in ArgVCs : StorePutLocal(v, c)
  \/ \E l \in ArgLists : StoreMergeRemote(l)
  \/ \E l \in ArgLists : StoreOverwrite(l)

SpecStore == InitStore /\ [][NextStore]_vars

---------------------------------------------------------------------------
(* Single calls of the pure functions on enumerated arguments *)

CallVCs == UNION {[S -> 0..MaxClock] : S \in SUBSET StoreIds}
CallVersions == {Version(v, c) : v \in StoreValues, c \in CallVCs}
CallLists == UNION {[1..n -> CallVersions] : n \in 0..MaxListLen}

\* Node A holds the list, nothing else is going on.
HoldsOnly(l) ==
  /\ store = [n \in Nodes |-> IF n = "A" THEN l ELSE << >>]
  /\ ops = << >>
  /\ response = NoResponse
  /\ faults = 0
  /\ created = {}
  /\ limits = [inflight |-> 0, faults |-> 0, crashed |-> {}]
  /\ idIsAddr = FALSE
  /\ MembershipStart
  /\ round = 0

\* put_local(key, value, vc) on a list without dominated entries, as the
\* pruning calls leave it.
InitPutLocal ==
  /\ \E l \in {x \in CallLists : NoLessPair(x)} : HoldsOnly(l)
  /\ lastCall \in {[op |-> "call", value |-> v, vc |-> c, before |-> << >>, ret |-> << >>] :
                     v \in StoreValues, c \in CallVCs}

CallPutLocal ==
  /\ lastCall.op = "call"
  /\ store' = [store EXCEPT !["A"] = put_local(@, lastCall.value, lastCall.vc)]
  /\ lastCall' = [lastCall EXCEPT !.op = "put_local",
                                  !.before = store["A"],
                                  !.ret = put_local_return(store["A"], lastCall.value, lastCall.vc)]
  /\ UNCHANGED <<ops, response, faults, created, limits, idIsAddr, memberVars, round>>

SpecPutLocal == InitPutLocal /\ [][CallPutLocal]_vars

\* merge_remote_versions(key, remote_versions) on any local list.
InitMergeRemote ==
  /\ \E l \in CallLists : HoldsOnly(l)
  /\ lastCall \in {[op |-> "call", remote |-> r, before |-> << >>, ret |-> << >>] :
                     r \in CallLists}

CallMergeRemote ==
  /\ lastCall.op = "call"
  /\ store' = [store EXCEPT !["A"] = merge_remote_versions(@, lastCall.remote)]
  /\ lastCall' = [lastCall EXCEPT !.op = "merge_remote_versions",
                                  !.before = store["A"],
                                  !.ret = merge_remote_versions_return(store["A"], lastCall.remote)]
  /\ UNCHANGED <<ops, response, faults, created, limits, idIsAddr, memberVars, round>>

SpecMergeRemote == InitMergeRemote /\ [][CallMergeRemote]_vars

\* a.compare(b) on three clocks, in every pairing a claim speaks of.
InitCompare ==
  /\ HoldsOnly(<< >>)
  /\ \E a \in CallVCs, b \in CallVCs, c \in CallVCs :
       lastCall = [op |-> "call", a |-> a, b |-> b, c |-> c,
                   aa |-> EQUAL, ab |-> EQUAL, ba |-> EQUAL, bc |-> EQUAL, ac |-> EQUAL]

CallCompare ==
  /\ lastCall.op = "call"
  /\ lastCall' = [lastCall EXCEPT !.op = "compare",
                                  !.aa = compare(lastCall.a, lastCall.a),
                                  !.ab = compare(lastCall.a, lastCall.b),
                                  !.ba = compare(lastCall.b, lastCall.a),
                                  !.bc = compare(lastCall.b, lastCall.c),
                                  !.ac = compare(lastCall.a, lastCall.c)]
  /\ UNCHANGED <<store, ops, response, faults, created, limits, idIsAddr, memberVars, round>>

SpecCompare == InitCompare /\ [][CallCompare]_vars

\* a.update(b), b.update(a), a.update(a) and a.increment(n), each on a
\* fresh copy of its clock.
InitUpdate ==
  /\ HoldsOnly(<< >>)
  /\ \E a \in CallVCs, b \in CallVCs, n \in Nodes :
       lastCall = [op |-> "call", a |-> a, b |-> b, n |-> n,
                   ab |-> EmptyVC, ba |-> EmptyVC, aa |-> EmptyVC, inc |-> EmptyVC]

CallUpdate ==
  /\ lastCall.op = "call"
  /\ lastCall' = [lastCall EXCEPT !.op = "update",
                                  !.ab = update(lastCall.a, lastCall.b),
                                  !.ba = update(lastCall.b, lastCall.a),
                                  !.aa = update(lastCall.a, lastCall.a),
                                  !.inc = increment(lastCall.a, lastCall.n)]
  /\ UNCHANGED <<store, ops, response, faults, created, limits, idIsAddr, memberVars, round>>

SpecUpdate == InitUpdate /\ [][CallUpdate]_vars

\* VectorClock.from_dict(d): dict(d or {}), an absent or null vc giving
\* the empty clock.
from_dict(has_vc, d) == IF has_vc THEN d ELSE EmptyVC

\* replicate_endpoint on the local list and a JSON body whose key, value
\* and vc may each be absent: the status answered and the list left.
replicate_endpoint(versions, body) ==
  IF ~body.has_key \/ ~body.has_value
  THEN [status |-> 400, versions |-> versions]
  ELSE [status |-> 200,
        versions |-> put_local(versions, body.value, from_dict(body.has_vc, body.vc))]

\* PUT /replicate with any of the three fields present or absent, on a
\* list without dominated entries.
InitReplicate ==
  /\ \E l \in {x \in CallLists : NoLessPair(x)} : HoldsOnly(l)
  /\ \E hk \in BOOLEAN, hv \in BOOLEAN, hc \in BOOLEAN :
       \E v \in (IF hv THEN StoreValues ELSE {0}), c \in (IF hc THEN CallVCs ELSE {EmptyVC}) :
         lastCall = [op |-> "call", has_key |-> hk, has_value |-> hv, has_vc |-> hc,
                     value |-> v, vc |-> c, before |-> << >>, status |-> 0]

CallReplicate ==
  /\ lastCall.op = "call"
  /\ LET r == replicate_endpoint(store["A"], lastCall)
     IN  /\ store' = [store EXCEPT !["A"] = r.versions]
         /\ lastCall' = [lastCall EXCEPT !.op = "replicate", !.before = store["A"],
                                         !.status = r.status]
  /\ UNCHANGED <<ops, response, faults, created, limits, idIsAddr, memberVars, round>>

SpecReplicate == InitReplicate /\ [][CallReplicate]_vars

MaxBatch == 3
MaxDeliveries == 4

\* The sets of up to MaxBatch versions sent to a replica.
Batches == {S \in SUBSET ArgVersions : Cardinality(S) <= MaxBatch}

\* A replica holding nothing for the key is sent the versions of one set by
\* replicate RPCs, in any order and any number of times.
InitApply ==
  /\ HoldsOnly(<< >>)
  /\ \E S \in Batches :
       lastCall = [op |-> "call", set |-> S, delivered |-> {}, deliveries |-> 0,
                   redelivered |-> FALSE]

\* One replicate RPC carrying v is handled.
Apply(v) ==
  /\ v \in lastCall.set
  /\ lastCall.deliveries < MaxDeliveries
  /\ LET body == [has_key |-> TRUE, has_value |-> TRUE, has_vc |-> TRUE,
                  value |-> v.value, vc |-> v.vc]
     IN  store' = [store EXCEPT !["A"] = replicate_endpoint(@, body).versions]
  /\ lastCall' = [lastCall EXCEPT !.op = "apply",
                                  !.delivered = @ \cup {v},
                                  !.deliveries = @ + 1,
                                  !.redelivered = @ \/ v \in lastCall.delivered]
  /\ UNCHANGED <<ops, response, faults, created, limits, idIsAddr, memberVars, round>>

NextApply == \E v \in ArgVersions : Apply(v)

SpecApply == InitApply /\ [][NextApply]_vars

---------------------------------------------------------------------------
(* The membership services of the cluster: probe sweeps and gossip *)

\* The cluster whose membership services are followed: the first
\* MaxMembers nodes.
Members == {PrefList[i] : i \in 1..MaxMembers}

\* self.peers of node n.
SelfPeers(n) == DOMAIN fail_counts[n]

\* The nodes were started with their addresses as ids, or by the launcher.
InitMembership ==
  /\ store = [n \in Nodes |-> << >>]
  /\ ops = << >>
  /\ response = NoResponse
  /\ faults = 0
  /\ created = {}
  /\ limits = [inflight |-> 0, faults |-> 0, crashed |-> {}, gossips |-> MaxGossip,
               fails |-> MaxProbeFails, counted |-> TRUE]
  /\ idIsAddr \in BOOLEAN
  /\ lastCall = [op |-> "none", clean |-> TRUE]
  /\ MembershipOf(Members)
  /\ round = 0

ClusterIdle == UNCHANGED <<store, ops, response, faults, created, limits, idIsAddr, lastCall, round>>

\* time.time() moves on.
Tick ==
  /\ now < MaxTime
  /\ now' = now + 1
  /\ UNCHANGED <<membership, fail_counts, loop, lastMerge, used>>
  /\ ClusterIdle

\* A loop that starts its next sweep whatever _running holds.
NextIterationAlways(n) ==
  [pc |-> "probe", pending |-> SelfPeers(n), to |-> "", sent |-> << >>,
   probed |-> FALSE, merged |-> FALSE, running |-> loop[n].running]

\* run at n after the gossip step: asyncio.sleep, then the while test; the
\* next sweep starts if _running is still set, else run returns.
NextIteration(n) ==
  IF loop[n].running
  THEN [pc |-> "probe", pending |-> SelfPeers(n), to |-> "", sent |-> << >>,
        probed |-> FALSE, merged |-> FALSE, running |-> TRUE]
  ELSE [pc |-> "stopped", pending |-> {}, to |-> "", sent |-> << >>,
        probed |-> FALSE, merged |-> FALSE, running |-> FALSE]

\* The loops after node n's probe of peer p returned: the probe is no longer
\* pending, and every gossip exchange under way with n records that n has
\* probed meanwhile (history).
ProbeReturned(n, p) ==
  [m \in DOMAIN loop |->
     IF m = n THEN [loop[m] EXCEPT !.pending = @ \ {p}]
     ELSE IF loop[m].pc \in {"gossip", "reply"} /\ loop[m].to = n
          THEN [loop[m] EXCEPT !.probed = TRUE]
          ELSE loop[m]]

\* _probe_once at n: peer p answered the ping with 200.
ProbeOk(n, p) ==
  /\ loop[n].pc = "probe"
  /\ p \in loop[n].pending
  /\ fail_counts' = [fail_counts EXCEPT ![n][p] = 0]
  /\ membership' = [membership EXCEPT ![n] = _mark_alive(@, p, now)]
  /\ loop' = ProbeReturned(n, p)
  /\ UNCHANGED <<now, lastMerge, used>>
  /\ ClusterIdle

\* A failed ping that marks the peer dead at once.
ProbeFailEager(n, p) ==
  /\ loop[n].pc = "probe"
  /\ p \in loop[n].pending
  /\ used.fails < limits.fails
  /\ fail_counts' = [fail_counts EXCEPT ![n][p] = @ + 1]
  /\ membership' = [membership EXCEPT ![n] = _mark_dead(@, p, now)]
  /\ loop' = ProbeReturned(n, p)
  /\ used' = [used EXCEPT !.fails = @ + 1]
  /\ UNCHANGED <<now, lastMerge>>
  /\ ClusterIdle

\* _probe_once at n: the ping of peer p failed (no answer, or an answer
\* other than 200).
ProbeFail(n, p) ==
  /\ loop[n].pc = "probe"
  /\ p \in loop[n].pending
  /\ used.fails < limits.fails
  /\ LET count == fail_counts[n][p] + 1
     IN  /\ fail_counts' = [fail_counts EXCEPT ![n][p] = count]
         /\ membership' = IF count >= FAIL_THRESHOLD
                          THEN [membership EXCEPT ![n] = _mark_dead(@, p, now)]
                          ELSE membership
  /\ loop' = ProbeReturned(n, p)
  /\ used' = [used EXCEPT !.fails = @ + 1]
  /\ UNCHANGED <<now, lastMerge>>
  /\ ClusterIdle

\* _gossip_once at n after the sweep: a peer is picked among the alive
\* entries other than self_id and the table is posted to it.  (The bound on
\* gossip exchanges counts the posts a peer handles.)
GossipSend(n, peer) ==
  /\ loop[n].pc = "probe"
  /\ loop[n].pending = {}
  /\ peer \in alive_nodes(membership[n]) \ {NODE_ID(n)}
  /\ loop' = [loop EXCEPT ![n] = [pc |-> "gossip", pending |-> {}, to |-> peer, probed |-> FALSE, merged |-> FALSE,
                                  running |-> loop[n].running,
                                  sent |-> membership[n]]]
  /\ UNCHANGED <<membership, fail_counts, now, lastMerge, used>>
  /\ ClusterIdle

\* _gossip_once at n with no alive peer: nothing is sent; the loop sleeps
\* and starts the next sweep.
GossipSkip(n) ==
  /\ loop[n].pc = "probe"
  /\ loop[n].pending = {}
  /\ alive_nodes(membership[n]) \ {NODE_ID(n)} = {}
  /\ loop' = [loop EXCEPT ![n] = NextIteration(n)]
  /\ UNCHANGED <<membership, fail_counts, now, lastMerge, used>>
  /\ ClusterIdle

\* History of a _merge at node n of the table remote_table.
MergeHistory(n, remote_table) ==
  [node |-> n,
   selfDead |-> /\ NODE_ID(n) \in DOMAIN remote_table
                /\ remote_table[NODE_ID(n)].status = "dead",
   incarnation |-> membership[n][NODE_ID(n)].incarnation,
   at |-> now]

\* The loops l after a gossip merge of node n's exchange changed the table
\* of node x: every other exchange under way that x began, or that x has
\* answered already, records that one of its two tables has merged another
\* table meanwhile (history).
OtherMerge(l, n, x, changed) ==
  [m \in DOMAIN l |->
     IF /\ changed /\ m # n
        /\ \/ m = x /\ l[m].pc \in {"gossip", "reply"}
           \/ l[m].to = x /\ l[m].pc = "reply"
     THEN [l[m] EXCEPT !.merged = TRUE]
     ELSE l[m]]

\* A /gossip handler that answers with its table and merges nothing.
GossipHandleNoMerge(n) ==
  /\ loop[n].pc = "gossip"
  /\ loop[n].to \in Members
  /\ limits.counted => used.gossips < limits.gossips
  /\ lastMerge' = MergeHistory(loop[n].to, loop[n].sent)
  /\ loop' = [loop EXCEPT ![n].pc = "reply", ![n].sent = membership[loop[n].to]]
  /\ used' = [used EXCEPT !.gossips = IF limits.counted THEN @ + 1 ELSE @]
  /\ UNCHANGED <<membership, fail_counts, now>>
  /\ ClusterIdle

\* The /gossip handler of the node at address loop[n].to: it merges the
\* table posted by n and answers with its own table.
GossipHandle(n) ==
  /\ loop[n].pc = "gossip"
  /\ loop[n].to \in Members
  /\ limits.counted => used.gossips < limits.gossips
  /\ LET q == loop[n].to
         merged == _merge(membership[q], loop[n].sent)
     IN  /\ membership' = [membership EXCEPT ![q] = merged]
         /\ lastMerge' = MergeHistory(q, loop[n].sent)
         /\ loop' = OtherMerge([loop EXCEPT ![n].pc = "reply", ![n].sent = merged],
                               n, q, merged # membership[q])
  /\ used' = [used EXCEPT !.gossips = IF limits.counted THEN @ + 1 ELSE @]
  /\ UNCHANGED <<fail_counts, now>>
  /\ ClusterIdle

\* _gossip_once at n: the answer arrived with status 200 and is merged; the
\* loop sleeps and starts the next sweep.
GossipReply(n) ==
  /\ loop[n].pc = "reply"
  /\ membership' = [membership EXCEPT ![n] = _merge(@, loop[n].sent)]
  /\ lastMerge' = MergeHistory(n, loop[n].sent)
  /\ loop' = OtherMerge([loop EXCEPT ![n] = NextIteration(n)], n, n,
                        _merge(membership[n], loop[n].sent) # membership[n])
  /\ UNCHANGED <<fail_counts, now, used>>
  /\ ClusterIdle

\* _gossip_once at n: the post raised (no such host, timeout, connection
\* error), before or after the peer handled it; nothing is merged.
GossipFail(n) ==
  /\ loop[n].pc \in {"gossip", "reply"}
  /\ loop' = [loop EXCEPT ![n] = NextIteration(n)]
  /\ UNCHANGED <<membership, fail_counts, now, lastMerge, used>>
  /\ ClusterIdle

NextMembership ==
  \/ Tick
  \/ \E n \in Members, p \in Members : ProbeOk(n, p)
  \/ \E n \in Members, p \in Members : ProbeFail(n, p)
  \/ \E n \in Members : \E peer \in DOMAIN membership[n] : GossipSend(n, peer)
  \/ \E n \in Members : GossipSkip(n)
  \/ \E n \in Members : GossipHandle(n)
  \/ \E n \in Members : GossipReply(n)
  \/ \E n \in Members : GossipFail(n)

SpecMembership == InitMembership /\ [][NextMembership]_vars

---------------------------------------------------------------------------
(* Shutdown of the membership services: stop() may be called on any        *)
(* running service at any moment.                                         *)

InitShutdown ==
  /\ store = [n \in Nodes |-> << >>]
  /\ ops = << >>
  /\ response = NoResponse
  /\ faults = 0
  /\ created = {}
  /\ limits = [inflight |-> 0, faults |-> 0, crashed |-> {}, gossips |-> MaxGossip - 1,
               fails |-> MaxProbeFails, counted |-> TRUE]
  /\ idIsAddr \in BOOLEAN
  /\ lastCall = [op |-> "none", clean |-> TRUE]
  /\ MembershipOf(Members)
  /\ round = 0

\* stop() on node n's service: self._running = False.
Stop(n) ==
  /\ loop[n].running
  /\ loop' = [loop EXCEPT ![n].running = FALSE]
  /\ UNCHANGED <<membership, fail_counts, now, lastMerge, used>>
  /\ ClusterIdle

\* A step of node n's membership loop, whatever its peers answer.
LoopRuns(n) ==
  \/ \E p \in Members : ProbeOk(n, p)
  \/ \E p \in Members : ProbeFail(n, p)
  \/ \E peer \in DOMAIN membership[n] : GossipSend(n, peer)
  \/ GossipSkip(n)
  \/ GossipReply(n)
  \/ GossipFail(n)

NextShutdown ==
  \/ \E n \in Members : Stop(n)
  \/ \E n \in Members : LoopRuns(n)
  \/ \E n \in Members : GossipHandle(n)

SpecShutdown == InitShutdown /\ [][NextShutdown]_vars

\* Every probe and every gossip post returns (answered, or failed at the
\* latest on its timeout) and the loop goes on from there.
FairShutdown == SpecShutdown /\ \A n \in Members : WF_vars(LoopRuns(n))

---------------------------------------------------------------------------
(* Recovery of a peer held dead: from now on every ping and every gossip   *)
(* post is answered.                                                      *)

\* The peer that was unreachable.
Recovering == PrefList[MaxMembers]

\* The entries node n's table can hold for the peer at time t: alive as
\* constructed, or dead since a time between the peer's start and t (marked
\* by the node's own third failed probe, or merged from another table).
RecoveringEntries(n, t) ==
  {[status |-> "alive", incarnation |-> 1, timestamp |-> StartTime(n)]}
  \cup {[status |-> "dead", incarnation |-> 1, timestamp |-> d] : d \in StartTime(Recovering)..t}

InitRecovery ==
  /\ store = [n \in Nodes |-> << >>]
  /\ ops = << >>
  /\ response = NoResponse
  /\ faults = 0
  /\ created = {}
  /\ limits = [inflight |-> 0, faults |-> 0, crashed |-> {}, gossips |-> 0, fails |-> 0,
               counted |-> FALSE]
  /\ idIsAddr \in BOOLEAN
  /\ lastCall = [op |-> "none", clean |-> TRUE]
  /\ round = 0
  /\ now = Cardinality(Members) - 1
  /\ \E e \in [Members -> UNION {RecoveringEntries(n, now) : n \in Members}] :
       /\ \A n \in Members : e[n] \in RecoveringEntries(n, now)
       /\ \E n \in Members : e[n].status = "dead"
       /\ membership = [n \in Members |->
            [k \in DOMAIN MembershipService(n, Members, StartTime(n)) |->
               IF k = Recovering THEN e[n]
               ELSE MembershipService(n, Members, StartTime(n))[k]]]
  /\ fail_counts \in [Members -> [Members -> {0, FAIL_THRESHOLD}]]
  /\ \A n \in Members : \A p \in Members :
       fail_counts[n][p] = IF /\ p = Recovering /\ p \in Peers(n, Members)
                              /\ membership[n][p].status = "dead"
                           THEN FAIL_THRESHOLD ELSE 0
  /\ loop = [n \in Members |->
               [pc |-> "probe", pending |-> Peers(n, Members), to |-> "", sent |-> << >>,
                probed |-> FALSE, merged |-> FALSE, running |-> TRUE]]
  /\ lastMerge = NoMerge
  /\ used = [fails |-> 0, gossips |-> 0]

\* A step of node n's membership loop (after a sweep in which every ping
\* was answered some peer is alive, so a gossip post is always sent).
LoopStep(n) ==
  \/ \E p \in Members : ProbeOk(n, p)
  \/ \E peer \in DOMAIN membership[n] : GossipSend(n, peer)
  \/ GossipReply(n)

NextRecovery ==
  \/ Tick
  \/ \E n \in Members : LoopStep(n)
  \/ \E n \in Members : GossipHandle(n)

SpecRecovery == InitRecovery /\ [][NextRecovery]_vars

\* Time moves on, every membership loop keeps running and every gossip post
\* is handled.
FairRecovery ==
  /\ SpecRecovery
  /\ WF_vars(Tick)
  /\ \A n \in Members : WF_vars(LoopStep(n)) /\ WF_vars(GossipHandle(n))

---------------------------------------------------------------------------
(* Single calls of _merge on enumerated tables *)

ArgEntries ==
  [status : {"alive", "dead"}, incarnation : 1..MaxIncarnation, timestamp : 0..MaxStamp]

\* Tables over the node ids of StoreIds, each id present or not.
ArgTables == UNION {[S -> ArgEntries] : S \in SUBSET StoreIds}

\* Node A's service holds any table that knows A itself and is handed any
\* table.
InitMergeTable ==
  /\ store = [n \in Nodes |-> << >>]
  /\ ops = << >>
  /\ response = NoResponse
  /\ faults = 0
  /\ created = {}
  /\ limits = [inflight |-> 0, faults |-> 0, crashed |-> {}]
  /\ idIsAddr = TRUE
  /\ round = 0
  /\ lastCall \in {[op |-> "call", remote_table |-> r, before |-> << >>] : r \in ArgTables}
  /\ membership \in {[n \in {"A"} |-> t] : t \in {x \in ArgTables : "A" \in DOMAIN x}}
  /\ fail_counts = [n \in {"A"} |-> [p \in {"B"} |-> 0]]
  /\ now = MaxStamp
  /\ loop = [n \in {"A"} |-> [pc |-> "probe", pending |-> {"B"}, to |-> "", sent |-> << >>,
                                probed |-> FALSE, merged |-> FALSE, running |-> TRUE]]
  /\ lastMerge = NoMerge
  /\ used = [fails |-> 0, gossips |-> 0]

CallMerge ==
  /\ lastCall.op = "call"
  /\ membership' = [membership EXCEPT !["A"] = _merge(@, lastCall.remote_table)]
  /\ lastMerge' = MergeHistory("A", lastCall.remote_table)
  /\ lastCall' = [lastCall EXCEPT !.op = "_merge", !.before = membership["A"]]
  /\ UNCHANGED <<fail_counts, now, loop, used>>
  /\ UNCHANGED <<store, ops, response, faults, created, limits, idIsAddr, round>>

SpecMergeTable == InitMergeTable /\ [][CallMerge]_vars

---------------------------------------------------------------------------
(* Single calls of HashRing.get_replicas on enumerated rings *)

\* HashRing(nodes, vnodes): every node of the set owns vnodes positions, in
\* any order around the ring.
Rings ==
  UNION {{r \in [1..(v * Cardinality(S)) -> S] :
            \A n \in S : Cardinality({i \in DOMAIN r : r[i] = n}) = v} :
         S \in SUBSET Nodes, v \in 1..MaxVnodes}

\* alive_nodes: None, or any set of ring nodes and one id that is no ring
\* node.
AliveArgs ==
  {[none |-> TRUE, nodes |-> {}]} \cup
  {[none |-> FALSE, nodes |-> S] : S \in SUBSET (Nodes \cup {"node0"})}

InitGetReplicas ==
  /\ HoldsOnly(<< >>)
  /\ \E r \in Rings, n \in 0..MaxN, a \in AliveArgs :
       \E i \in 0..Len(r) :
         lastCall = [op |-> "call", ring |-> r, idx |-> i, N |-> n, alive_nodes |-> a,
                     res |-> << >>, visited |-> 0, done |-> FALSE]

CallGetReplicas ==
  /\ lastCall.op = "call"
  /\ LET st == get_replicas(lastCall.ring, lastCall.idx, lastCall.N, lastCall.alive_nodes)
     IN  lastCall' = [lastCall EXCEPT !.op = "get_replicas", !.res = st.res,
                                      !.visited = st.i - lastCall.idx, !.done = st.done]
  /\ UNCHANGED <<store, ops, response, faults, created, limits, idIsAddr, memberVars, round>>

SpecGetReplicas == InitGetReplicas /\ [][CallGetReplicas]_vars

---------------------------------------------------------------------------
(* Single calls of HashRing.get_replicas on rings with their positions *)

MaxPos == 4

\* self._ring: the sorted lists of len distinct positions.
PositionLists(len) ==
  {[i \in 1..len |-> CHOOSE x \in S : Cardinality({y \in S : y < x}) = i - 1] :
     S \in {T \in SUBSET (0..MaxPos) : Cardinality(T) = len}}

\* bisect.bisect(a, x) on a sorted list (bisect_right): the insertion point
\* after every element equal to x.
bisect(a, x) == Cardinality({i \in DOMAIN a : a[i] <= x})

\* A ring with its positions, a key position (_hash_fn(key)) and N; the
\* call is get_replicas(key, N) with alive_nodes left None.
InitPrimary ==
  /\ HoldsOnly(<< >>)
  /\ \E r \in Rings, n \in 0..MaxN, k \in 0..MaxPos :
       \E p \in PositionLists(Len(r)) :
         lastCall = [op |-> "call", ring |-> r, positions |-> p, key_pos |-> k, N |-> n,
                     idx |-> 0, res |-> << >>]

CallPrimary ==
  /\ lastCall.op = "call"
  /\ LET idx == bisect(lastCall.positions, lastCall.key_pos)
         st == get_replicas(lastCall.ring, idx, lastCall.N, [none |-> TRUE, nodes |-> {}])
     IN  lastCall' = [lastCall EXCEPT !.op = "get_replicas", !.idx = idx, !.res = st.res]
  /\ UNCHANGED <<store, ops, response, faults, created, limits, idIsAddr, memberVars, round>>

SpecPrimary == InitPrimary /\ [][CallPrimary]_vars

---------------------------------------------------------------------------
(* experiments/experiment_driver.py: run_repair_rounds on a quiet cluster  *)
(* whose replicas are all reachable.                                       *)

\* The lists a replica may hold when the rounds begin: nothing, or the
\* version of InitWritten.
RoundLists == {<< >>, <<Version(0, FirstVersion(0, "A").vc)>>}

\* The replicas diverge: some hold the version, some do not.
InitRounds ==
  /\ store \in {f \in [Nodes -> RoundLists] : \E n, m \in Nodes : f[n] # f[m]}
  /\ ops = [o \in 1..Len(PrefList) |-> IdleOp]
  /\ response = NoResponse
  /\ faults = 0
  /\ created = {}
  /\ limits = [inflight |-> Len(PrefList), faults |-> 0, crashed |-> {}]
  /\ idIsAddr = FALSE
  /\ MembershipStart
  /\ round = 1
  /\ lastCall = [op |-> "none", clean |-> TRUE]

\* One of the round's posts (client.post(".../repair_once/{key}") for each
\* node in replicas, gathered) reaches its node: the handlers of a round run
\* concurrently, one per replica, in any order.
RoundPost(o) ==
  /\ ops[o].pc = "idle"
  /\ RepairStart(o, PrefList[o])

\* The driver's check after a round: every replica answers get_local with
\* exactly one version and the vector clocks are the same.
RoundConverged ==
  /\ \A n \in Nodes : Len(store[n]) = 1
  /\ \A n, m \in Nodes : store[n][1].vc = store[m][1].vc

\* The gather returned (the round's answers are consumed), the check failed
\* and rounds remain: the next round.
RoundNext ==
  /\ \A o \in DOMAIN ops : ops[o].pc = "done"
  /\ ~RoundConverged
  /\ round < MaxRounds
  /\ round' = round + 1
  /\ ops' = [o \in DOMAIN ops |-> IdleOp]
  /\ response' = NoResponse
  /\ UNCHANGED <<store, faults, created, limits, idIsAddr, lastCall, memberVars>>

NextRounds ==
  \/ \E o \in 1..Len(PrefList) : RoundPost(o)
  \/ \E o \in 1..Len(PrefList) : RepairFetchReply(o, TRUE)
  \/ \E o \in 1..Len(PrefList) : RepairFetched(o)
  \/ \E o \in 1..Len(PrefList) : RepairPush(o, TRUE)
  \/ RoundNext

SpecRounds == InitRounds /\ [][NextRounds]_vars

\* Every handler runs to its end and the driver goes on to its next round.
FairRounds == SpecRounds /\ WF_vars(NextRounds)

---------------------------------------------------------------------------
(* Claims *)

\* C1 (as stated): after any sequence of put_local, merge_remote_versions and
\* overwrite_local_versions calls with arbitrary arguments, the key's stored
\* list holds no two versions v, w with compare(v.vc, w.vc) = LESS.
C1_DominanceInvariant == NoLessPair(store["A"])

\* C1 (amended): right after put_local or merge_remote_versions, whatever
\* the arguments and whatever the list held before, the stored list has no
\* LESS pair; right after overwrite_local_versions it has none provided the
\* list passed in had none.
C1_DominanceAfterPruningCalls ==
  /\ lastCall.op \in {"put_local", "merge_remote_versions"} => NoLessPair(store["A"])
  /\ lastCall.op = "overwrite_local_versions" /\ lastCall.clean => NoLessPair(store["A"])

\* C1 witness: a put_local has just pruned a list that an earlier call left
\* with several versions, and two siblings remain.
C1_Witness ==
  /\ lastCall.op = "put_local"
  /\ Len(store["A"]) >= 2
  /\ \E i, j \in 1..Len(store["A"]) :
       compare(store["A"][i].vc, store["A"][j].vc) = CONCURRENT

\* The version record kept in the stores for an entry of the history.
Stored(x) == Version(x.value, x.vc)

\* PUT y had returned (or belongs to the initial contents) before the
\* handler of PUT x started.
ReturnedBefore(y, x) ==
  /\ x.value \in 1..MaxOps
  /\ y.value \notin 1..MaxOps \/ y.value \in ops[x.value].after

\* C2 (as stated): after any sequence of client PUT, client GET, peer
\* replicate and /repair_once operations, no two versions a node stores for
\* the key share the same (value, vector clock) signature.
C2_NoDuplicateSignature == \A n \in Nodes : NoDuplicate(store[n])

\* C3 (as stated): every operation leaves, for each version it removes from
\* a node's list, a version in that list whose clock strictly dominates the
\* removed one; a non-empty list never becomes empty.
C3_RemovedOnlyByDominance ==
  [][\A n \in Nodes :
       /\ \A v \in Range(store[n]) :
            \/ v \in Range(store'[n])
            \/ \E w \in Range(store'[n]) : compare(v.vc, w.vc) = LESS
       /\ store[n] # << >> => store'[n] # << >>]_vars

\* C4 (as stated): the clock of every version created by a client PUT is the
\* coordinate-wise max of its parents' clocks with the coordinator's own
\* coordinate incremented by exactly one (so {A:1} for a first PUT at A).
C4_ClockIsParentsPlusOne ==
  \A x \in created :
    x.value \in 1..MaxOps => x.vc = increment(MergedParentVC(x.parents), x.coord)

\* C5 (as stated): the coordinator's coordinate of a version created by a
\* client PUT is strictly greater than that coordinate of every version that
\* existed before the PUT, also when the parent read failed.  Checked for
\* the versions of PUTs that had returned before the PUT began.
C5_MonotoneVC ==
  \A x, y \in created :
    ReturnedBefore(y, x) => VCGet(x.vc, x.coord) > VCGet(y.vc, x.coord)

\* C6 (as stated): the versions of two client PUTs handled by the same
\* coordinator, one after the other or interleaved, have strictly ordered
\* clocks (never EQUAL, never CONCURRENT) and never share a store.
C6_NoSelfSiblings ==
  \A x, y \in created :
    (x # y /\ x.coord = y.coord /\ x.value \in 1..MaxOps /\ y.value \in 1..MaxOps) =>
      /\ compare(x.vc, y.vc) \in {LESS, GREATER}
      /\ \A n \in Nodes : ~({Stored(x), Stored(y)} \subseteq Range(store[n]))

\* C7 (as stated): when two PUTs at different coordinators each complete
\* their parent read before the other's version is stored anywhere, both
\* report success, their clocks compare CONCURRENT, and a GET that hears
\* from replicas holding them returns both.
C7_ConcurrentSiblings ==
  \A x, y \in created :
    (/\ x.coord # y.coord
     /\ x.value \in 1..MaxOps /\ y.value \in 1..MaxOps
     /\ x.value \notin y.before /\ y.value \notin x.before) =>
      /\ compare(x.vc, y.vc) = CONCURRENT
      /\ ops[x.value].pc = "done" => ops[x.value].success
      /\ (/\ response.kind = "get" /\ response.status = 200
          /\ {Stored(x), Stored(y)} \subseteq response.heard) =>
           {Stored(x), Stored(y)} \subseteq Range(response.versions)

\* The client PUTs whose parent read returned a non-empty set S.
Merges == {x \in created : x.value \in 1..MaxOps /\ x.parents # << >>}

\* The clock of a merge dominates every parent, and no parent stays on a
\* replica that stores the merge.
MergeSupersedesParents(x) ==
  /\ \A i \in 1..Len(x.parents) : compare(x.parents[i].vc, x.vc) = LESS
  /\ \A n \in Nodes :
       Stored(x) \in Range(store[n]) =>
         \A i \in 1..Len(x.parents) : x.parents[i] \notin Range(store[n])

\* The last answer is a successful GET that began after PUT x had returned,
\* and nothing was written since x.
LaterGet(x) ==
  /\ response.kind = "get" /\ response.status = 200
  /\ x.value \in ops[response.op].after
  /\ \A y \in created : y.order <= x.order

C9_CausalOverwrite ==
  \A x, y \in created :
    (/\ created = {x, y}
     /\ y.coord = "A" /\ y.ok
     /\ x.coord = "B" /\ ReturnedBefore(y, x)
     /\ ops[x.value].pc = "done" /\ ops[x.value].success
     /\ response.kind = "get" /\ response.status = 200
     /\ x.value \in ops[response.op].after) =>
      response.versions = <<Stored(x)>>

\* C10 (as stated): the responders of a quorum read are exactly the
\* candidates whose get_local RPC returned a version list, and a client GET
\* answers 503 whenever fewer than R candidates responded.
C10_RespondersAnswered ==
  /\ response.kind \in {"get", "put"} =>
       {response.responders[i] : i \in 1..Len(response.responders)} = response.answered
  /\ (response.kind = "get" /\ Cardinality(response.answered) < READ_QUORUM_R) =>
       response.status = 503

\* C11 (as stated): in a cluster started by the launcher, the coordinator
\* is not among the replicate targets and is counted as exactly one success,
\* and a PUT reports success iff the number of distinct nodes that
\* acknowledged storing the version (coordinator included) is at least W.
C11_WriteAccounting ==
  response.kind = "put" =>
    /\ \A i, j \in 1..Len(response.succeeded) :
         i # j => response.succeeded[i] # response.succeeded[j]
    /\ response.ok <=>
         Cardinality({response.succeeded[i] : i \in 1..Len(response.succeeded)})
           >= WRITE_QUORUM_W

\* C12 (as stated): when a client PUT handler returns, with success true or
\* false and whether or not its parent read succeeded, the coordinator's
\* list holds the new version or a version that strictly dominates it.
C12_LocalWriteUnconditional ==
  [][\A o \in 1..MaxOps :
       (ops[o].kind = "put" /\ ops[o].pc = "write" /\ ops'[o].pc = "done") =>
         \E v \in Range(store'[ops[o].coord]) :
           \/ v = Stored(CreatedBy(o))
           \/ compare(CreatedBy(o).vc, v.vc) = LESS]_vars

\* The last answer is a GET at the coordinator of PUT x that began after x
\* had returned, and x is the latest write.
FollowingGet(x) ==
  /\ response.kind = "get"
  /\ x.value \in ops[response.op].after
  /\ ops[response.op].coord = x.coord
  /\ \A y \in created : y.order <= x.order

\* C13: with N = 3, R = W = 2, exactly one replica crashed and no other
\* failure, a client PUT at a live node reports success, and a following
\* client GET at that node succeeds and returns the written value.
C13_CrashTolerance ==
  (Cardinality(limits.crashed) = 1 /\ faults = 0) =>
    /\ response.kind = "put" => response.ok
    /\ \A x \in created :
         FollowingGet(x) =>
           /\ response.status = 200
           /\ \E i \in 1..Len(response.versions) : response.versions[i].value = x.value

\* C13 witness: with one node crashed and no other failure, a PUT was
\* answered success and the GET that followed at its coordinator, which the
\* crashed node did not answer, returned its value.
C13_Witness ==
  /\ Cardinality(limits.crashed) = 1 /\ faults = 0
  /\ \E x \in created :
       /\ FollowingGet(x)
       /\ ops[x.value].success
       /\ response.status = 200
       /\ response.answered = Nodes \ limits.crashed
       /\ response.versions = <<Stored(x)>>

\* The last answer is a successful GET whose background repair pushes have
\* all been made and answered, and no request has started since it began.
RepairsDrained ==
  /\ response.kind = "get" /\ response.status = 200
  /\ ops[response.op].pc = "done"
  /\ \A n \in Nodes : ops[response.op].rr[n] = << >>
  /\ ~ops[response.op].rrFailed
  /\ \A p \in 1..MaxOps :
       p = response.op \/ ops[p].pc = "idle" \/ p \in ops[response.op].after

\* C14 (as stated): after a quorum read succeeded and all the background
\* repair pushes it started have completed, the list of every replica
\* listed as a responder contains, by signature, every version of the
\* merged set returned to the client.
C14_ReadRepairConvergence ==
  RepairsDrained =>
    \A i \in 1..Len(response.responders) :
      Sigs(response.versions) \subseteq Sigs(store[response.responders[i]])

\* The non-dominated, de-duplicated union of two lists, as a set of
\* signatures.
MergedSigs(l, r) ==
  {_signature(v) : v \in {w \in Range(l \o r) :
      \A u \in Range(l \o r) : compare(w.vc, u.vc) # LESS}}

\* C15 (as stated): in a quiet cluster (only repair_once requests so far,
\* no failure), a second /repair_once call on the same node leaves that
\* node's list and the target's list exactly as the first call left them.
C15_RepairIdempotent ==
  (/\ response.kind = "repair" /\ response.ok
   /\ response.repair.second
   /\ faults = 0
   /\ \A p \in 1..MaxOps : ops[p].kind \in {"repair", "none"}) =>
    response.repair.after = response.repair.before

C17_DominatedCandidate ==
  ( /\ lastCall.op = "put_local"
    /\ \E i \in 1..Len(lastCall.before) :
         compare(lastCall.vc, lastCall.before[i].vc) = LESS )
  => /\ Range(store["A"]) = Range(lastCall.before)
     /\ compare(lastCall.vc, lastCall.ret.vc) = LESS

\* The versions of the list that no version of the list strictly dominates.
Maximal(l) ==
  {v \in Range(l) : \A w \in Range(l) : compare(v.vc, w.vc) # LESS}

\* C18: merge_remote_versions stores exactly the versions of local and
\* remote together that none of them strictly dominates, one list entry per
\* (value, vc) signature, and returns the list it stored.
C18_MergeRemote ==
  lastCall.op = "merge_remote_versions"
  => /\ Range(store["A"]) = Maximal(lastCall.before \o lastCall.remote)
     /\ NoDuplicate(store["A"])
     /\ store["A"] = lastCall.ret

\* C18 witness: a merge_remote_versions call was given a duplicate and a
\* dominated version, dropped both, and left two concurrent siblings.
C18_Witness ==
  /\ lastCall.op = "merge_remote_versions"
  /\ ~NoDuplicate(lastCall.before \o lastCall.remote)
  /\ ~NoLessPair(lastCall.before \o lastCall.remote)
  /\ Len(lastCall.before) + Len(lastCall.remote) = Len(store["A"]) + 2
  /\ Len(store["A"]) = 2
  /\ compare(store["A"][1].vc, store["A"][2].vc) = CONCURRENT

\* C19: compare is a strict partial order with EQUAL as its identity:
\* compare(a, a) = EQUAL, compare(a, b) = LESS exactly when compare(b, a) =
\* GREATER, CONCURRENT is symmetric, and LESS is transitive.
C19_PartialOrder ==
  lastCall.op = "compare"
  => /\ lastCall.aa = EQUAL
     /\ lastCall.ab = LESS <=> lastCall.ba = GREATER
     /\ lastCall.ab = CONCURRENT <=> lastCall.ba = CONCURRENT
     /\ lastCall.ab = LESS /\ lastCall.bc = LESS => lastCall.ac = LESS

\* C19 witness: a chain a < b < c of clocks over different key sets was
\* compared.
C19_Witness ==
  /\ lastCall.op = "compare"
  /\ lastCall.ab = LESS /\ lastCall.bc = LESS /\ lastCall.ac = LESS
  /\ DOMAIN lastCall.a # DOMAIN lastCall.b
  /\ DOMAIN lastCall.b # DOMAIN lastCall.c

\* a <= b coordinate-wise over the union of the keys, absent keys read as 0.
Leq(a, b) ==
  \A k \in (DOMAIN a) \cup (DOMAIN b) :
    (IF k \in DOMAIN a THEN a[k] ELSE 0) <= (IF k \in DOMAIN b THEN b[k] ELSE 0)

\* C20: compare(a, b) is LESS when a <= b coordinate-wise and they differ
\* somewhere, GREATER in the mirrored case, EQUAL when every coordinate is
\* equal (absent keys count as zero), CONCURRENT otherwise.
C20_CoordinateWise ==
  lastCall.op = "compare"
  => lastCall.ab = (IF Leq(lastCall.a, lastCall.b) /\ Leq(lastCall.b, lastCall.a) THEN EQUAL
                    ELSE IF Leq(lastCall.a, lastCall.b) THEN LESS
                    ELSE IF Leq(lastCall.b, lastCall.a) THEN GREATER
                    ELSE CONCURRENT)

\* C20 witness: the clock {A: 0} was compared with the empty clock and found
\* EQUAL.
C20_Witness ==
  /\ lastCall.op = "compare"
  /\ lastCall.a = [k \in {"A"} |-> 0]
  /\ lastCall.b = EmptyVC
  /\ lastCall.ab = EQUAL

\* The remote entry wins over the local one: higher incarnation, or equal
\* incarnations and a strictly newer timestamp.
RemoteWins(remote_data, local_data) ==
  \/ remote_data.incarnation > local_data.incarnation
  \/ /\ remote_data.incarnation = local_data.incarnation
     /\ remote_data.timestamp > local_data.timestamp

\* C23: after _merge, for each received entry: an unknown node's entry is
\* adopted; a known node's entry is the remote one if the remote incarnation
\* is higher, or equal with a strictly newer timestamp, and the unchanged
\* local one otherwise.
C23_GossipMergeRule ==
  lastCall.op = "_merge"
  => \A k \in DOMAIN lastCall.remote_table :
       membership["A"][k] =
         IF k \notin DOMAIN lastCall.before THEN lastCall.remote_table[k]
         ELSE IF RemoteWins(lastCall.remote_table[k], lastCall.before[k])
              THEN lastCall.remote_table[k]
              ELSE lastCall.before[k]

\* C23 witness: one merge adopted an unknown node's entry and kept a local
\* entry against a remote one of lower incarnation and newer timestamp.
C23_Witness ==
  /\ lastCall.op = "_merge"
  /\ "B" \in DOMAIN lastCall.remote_table /\ "B" \notin DOMAIN lastCall.before
  /\ membership["A"]["B"] = lastCall.remote_table["B"]
  /\ "A" \in DOMAIN lastCall.remote_table
  /\ lastCall.remote_table["A"].incarnation < lastCall.before["A"].incarnation
  /\ lastCall.remote_table["A"].timestamp > lastCall.before["A"].timestamp
  /\ lastCall.remote_table["A"].status # lastCall.before["A"].status
  /\ membership["A"]["A"] = lastCall.before["A"]

\* C24 (as stated): a node that has merged a gossip table recording the
\* node itself as dead has raised its own incarnation and its own entry is
\* alive; no node's own entry in its own table is ever dead.
C24_SelfRefutation ==
  /\ lastMerge.selfDead =>
       /\ membership[lastMerge.node][NODE_ID(lastMerge.node)].status = "alive"
       /\ membership[lastMerge.node][NODE_ID(lastMerge.node)].incarnation > lastMerge.incarnation
  /\ \A n \in DOMAIN membership : membership[n][NODE_ID(n)].status # "dead"

\* C25 (as stated): at every moment, whatever probes, outgoing gossip and
\* incoming gossip merges have happened, alive_nodes() of every node
\* contains the node's own id.
C25_SelfInAliveNodes ==
  \A n \in DOMAIN membership : NODE_ID(n) \in alive_nodes(membership[n])

Min(a, b) == IF a < b THEN a ELSE b

Distinct(l) == \A i, j \in 1..Len(l) : i # j => l[i] # l[j]

\* C21: get_replicas(K, N, None) returns exactly min(N, |nodes|) node ids,
\* all pairwise distinct, for every ring, key position and N >= 0.
C21_RingCoverage ==
  (lastCall.op = "get_replicas" /\ lastCall.alive_nodes.none)
  => /\ lastCall.done
     /\ Len(lastCall.res) = Min(lastCall.N, Cardinality(Range(lastCall.ring)))
     /\ Distinct(lastCall.res)

\* C21 witness: a call without alive set on a ring of three nodes with two
\* positions each returned fewer nodes than asked for: all three.
C21_Witness ==
  /\ lastCall.op = "get_replicas" /\ lastCall.alive_nodes.none
  /\ Len(lastCall.ring) = 6
  /\ lastCall.ring[1] = lastCall.ring[2]
  /\ lastCall.N = 4
  /\ Len(lastCall.res) = 3

\* C22: with an alive set given, get_replicas leaves its loop after at most
\* one revolution of the ring (also when alive is empty) and returns
\* min(N, |alive \cap nodes|) distinct node ids, all in alive, in the order
\* in which the unfiltered walk over all nodes lists them.
C22_AliveFilter ==
  (lastCall.op = "get_replicas" /\ ~lastCall.alive_nodes.none)
  => LET full == get_replicas(lastCall.ring, lastCall.idx,
                              Cardinality(Range(lastCall.ring)),
                              [none |-> TRUE, nodes |-> {}]).res
     IN  /\ lastCall.done
         /\ lastCall.visited <= Len(lastCall.ring)
         /\ Range(lastCall.res) \subseteq lastCall.alive_nodes.nodes
         /\ Distinct(lastCall.res)
         /\ Len(lastCall.res) =
              Min(lastCall.N, Cardinality(lastCall.alive_nodes.nodes \cap Range(lastCall.ring)))
         /\ lastCall.res = SubSeq(SelectSeq(full, LAMBDA n : n \in lastCall.alive_nodes.nodes),
                                  1, Len(lastCall.res))

\* C22 witness: a call with two of three ring nodes alive walked the whole
\* ring once, skipped the dead node and returned the two live ones; and so
\* did a call with an empty alive set, returning nothing.
C22_Witness ==
  /\ lastCall.op = "get_replicas" /\ ~lastCall.alive_nodes.none
  /\ Len(lastCall.ring) = 6
  /\ lastCall.visited = 6
  /\ \/ /\ Cardinality(lastCall.alive_nodes.nodes \cap Range(lastCall.ring)) = 2
        /\ lastCall.N = 3
        /\ Len(lastCall.res) = 2
        /\ lastCall.ring[(lastCall.idx % 6) + 1] \notin lastCall.alive_nodes.nodes
     \/ /\ lastCall.alive_nodes.nodes = {}
        /\ lastCall.N = 3
        /\ lastCall.res = << >>

\* The step is the write-back of request o at its node: quorum_read's
\* overwrite_local_versions(key, merged) after the gather, or repair_once's
\* overwrite_local_versions(key, keep) after the fetch.
WritesBack(o) ==
  \/ ops[o].pc = "read" /\ ops'[o].pc \in {"write", "done"}
  \/ ops[o].pc = "fetched" /\ ops'[o].pc \in {"push", "done"}

\* The local list request o read at its node before its network I/O: the
\* answer of the coordinator's own get_local RPC, or repair_once's
\* local_versions.
Snapshot(o) ==
  IF ops[o].pc = "fetched" THEN ops[o].local_versions
  ELSE ops[o].results[ops[o].coord].vers

\* C26 (as stated): when a quorum read or a repair_once writes its merged
\* result back, every version its node accepted since the request read the
\* local list (by a replicate RPC or a local PUT) is still in the node's
\* list or strictly dominated by a version of the list.
C26_NoLostUpdate ==
  [][\A o \in 1..MaxOps :
       (/\ WritesBack(o)
        /\ ops[o].pc = "read" => ops[o].results[ops[o].coord].st = "ok")
       => \A v \in Range(store[ops[o].coord]) \ Range(Snapshot(o)) :
            \/ v \in Range(store'[ops[o].coord])
            \/ \E w \in Range(store'[ops[o].coord]) : compare(v.vc, w.vc) = LESS]_vars

\* C27: when a quorum read succeeds, its merged set has no strictly
\* dominated version and no duplicate signature, holds exactly the
\* non-dominated versions of what the responders returned, and (for a GET,
\* whose handler does nothing more) is the coordinator's list right after
\* the read.
C27_MergedSet ==
  [][\A o \in 1..MaxOps :
       (/\ ops[o].pc = "read" /\ ops'[o].pc \in {"write", "done"}
        /\ IF ops[o].kind = "get" THEN response'.ok ELSE ops'[o].ok)
       => LET merged == IF ops[o].kind = "get" THEN response'.versions ELSE ops'[o].merged
          IN  /\ NoLessPair(merged)
              /\ NoDuplicate(merged)
              /\ Range(merged) = Maximal(Flatten(ops[o].cands, ops[o].results))
              /\ ops[o].kind = "get" => store'[ops[o].coord] = merged]_vars

\* C27 witness: a GET has just answered 200 with one version after hearing
\* it, twice or more, together with a version it dominates; the
\* coordinator's list, which held the dominated version, is the merged set.
C27_Witness ==
  /\ response.kind = "get" /\ response.status = 200
  /\ Len(response.versions) = 1
  /\ \E v \in response.heard : compare(v.vc, response.versions[1].vc) = LESS
  /\ Cardinality(response.answered) = 3
  /\ store[ops[response.op].coord] = response.versions
  /\ \E n \in Nodes : \E i \in 1..Len(store[n]) :
       compare(store[n][i].vc, response.versions[1].vc) = LESS

\* All replicas of the key hold the same set of version signatures.
SameSignatures == \A n, m \in Nodes : Sigs(store[n]) = Sigs(store[m])

\* C28 (as stated): in a quiet cluster whose replicas are all reachable,
\* rounds of /repair_once on every node of the preference list lead, within
\* the rounds the driver runs, to all replicas holding the same set of
\* version signatures, and they keep holding it.
C28_RepairRoundsConverge == <>[]SameSignatures

\* The candidate after node n in the full preference list, wrapping.
NextCandidate(n) ==
  LET my_index == CHOOSE i \in 1..Len(PrefList) : PrefList[i] = n
  IN  PrefList[(my_index % Len(PrefList)) + 1]

\* C29 (as stated): a /repair_once call at a node of the key's full
\* preference list targets the candidate right after that node (wrapping),
\* a call at any other node targets the first candidate, and the target is
\* never the calling node.
C29_RepairTarget ==
  \A o \in 1..MaxOps :
    ops[o].kind = "repair" /\ ops[o].pc \in {"fetch", "fetched", "push"}
    => /\ ops[o].target = IF ops[o].coord \in Range(PrefList)
                          THEN NextCandidate(ops[o].coord) ELSE PrefList[1]
       /\ ops[o].target # ops[o].coord

\* C30: when the fetch of a /repair_once call fails (the call leaves the
\* fetch without an answer from its target), the handler returns at once,
\* its answer is ok = false with reason target_unreachable and no push
\* counted, and no node's list for the key has changed.
C30_TargetUnreachable ==
  [][\A o \in 1..MaxOps :
       ops[o].pc = "fetch" /\ ops'[o].pc \notin {"fetch", "fetched"}
       => /\ ops'[o].pc = "done"
          /\ response'.op = o /\ response'.kind = "repair"
          /\ ~response'.ok /\ response'.reason = "target_unreachable"
          /\ response'.pushed = 0
          /\ store' = store]_vars

\* C30 witness: a /repair_once call at a node that holds a version has
\* just answered target_unreachable for a target other than itself.
C30_Witness ==
  /\ response.kind = "repair" /\ response.reason = "target_unreachable"
  /\ response.repair.target # response.repair.node
  /\ ops[response.op].pc = "done"
  /\ store[response.repair.node] # << >>
  /\ response.repair.after = response.repair.before

\* The successes quorum_write would count for request o at this moment:
\* the replicate RPCs answered 200 so far, and the coordinator itself.
SuccessesSoFar(o) ==
  Len(SelectSeq(RpcTargets(ops[o].cands, ops[o].coord, idIsAddr),
                LAMBDA n : ops[o].wst[n] = "ok")) + 1

\* C31 (as stated): a client PUT whose local write is done can complete as
\* soon as W successes (the coordinator included) are in, whatever
\* replicate RPCs are still outstanding.
C31_CompletesAtW ==
  \A o \in 1..MaxOps :
    ops[o].pc = "write" /\ SuccessesSoFar(o) >= WRITE_QUORUM_W => ENABLED PutDone(o)

\* Node n's probe of peer p returns in this step.
Probed(n, p) ==
  /\ loop[n].pc = "probe" /\ p \in loop[n].pending
  /\ loop'[n].pc = "probe" /\ p \notin loop'[n].pending

\* C32: a successful probe of a peer sets its fail count to 0 and its entry
\* to alive; a failed probe adds one to the fail count; a probe turns an
\* alive entry dead only when the count has reached FAIL_THRESHOLD, and
\* whenever the count has reached it the entry is dead right after the
\* probe.
C32_ProbeDetection ==
  [][\A n \in Members : \A p \in SelfPeers(n) :
       Probed(n, p)
       => IF used'.fails = used.fails
          THEN /\ fail_counts'[n][p] = 0
               /\ membership'[n][p].status = "alive"
          ELSE /\ fail_counts'[n][p] = fail_counts[n][p] + 1
               /\ (membership[n][p].status = "alive" /\ membership'[n][p].status = "dead")
                  => fail_counts'[n][p] >= FAIL_THRESHOLD
               /\ fail_counts'[n][p] >= FAIL_THRESHOLD
                  => membership'[n][p].status = "dead"
               /\ fail_counts'[n][p] < FAIL_THRESHOLD
                  => membership'[n][p] = membership[n][p]]_vars

\* C32 witness: a peer other than the node itself has just been marked dead
\* by the probe that brought its count to FAIL_THRESHOLD.
C32_Witness ==
  \E n \in Members : \E p \in SelfPeers(n) \ {n} :
    /\ fail_counts[n][p] = FAIL_THRESHOLD
    /\ membership[n][p].status = "dead"
    /\ membership[n][p].timestamp = now
    /\ p \notin loop[n].pending /\ loop[n].pc = "probe"

\* Node n's gossip exchange ends in this step with the reply merged, and
\* its peer has not probed since the table was posted.
Exchanged(n) ==
  /\ loop[n].pc = "reply" /\ loop'[n].pc = "probe"
  /\ ~loop[n].probed
  /\ membership'[n] = _merge(membership[n], loop[n].sent)

\* Such an exchange during which, besides, no other gossip merge changed
\* either table: the sender's since it posted, the peer's since it answered.
ExchangedAlone(n) == Exchanged(n) /\ ~loop[n].merged

\* The two tables held, for node id, entries of equal incarnation and
\* timestamp and different status.
Tied(t1, t2, id) ==
  /\ id \in DOMAIN t1 /\ id \in DOMAIN t2
  /\ t1[id].incarnation = t2[id].incarnation
  /\ t1[id].timestamp = t2[id].timestamp
  /\ t1[id].status # t2[id].status

\* C33 (as stated): after a successful gossip exchange with no probe in
\* between, the two tables hold the same status, incarnation and timestamp
\* for every node id.
C33_ExchangeConverges ==
  [][\A n \in Members :
       Exchanged(n)
       => /\ DOMAIN membership'[n] = DOMAIN membership'[loop[n].to]
          /\ \A id \in DOMAIN membership'[n] :
               membership'[n][id] = membership'[loop[n].to][id]]_vars

\* C33 (amended): after such an exchange during which no other gossip
\* merge changed either table, the two tables know the same node ids and
\* hold the same incarnation and timestamp for each; they hold the same
\* status too, except for an id whose entries in the two tables had equal
\* incarnation and timestamp and different status before the reply was
\* merged, where each node keeps its own.
C33_ExchangeConvergesButTies ==
  [][\A n \in Members :
       ExchangedAlone(n)
       => /\ DOMAIN membership'[n] = DOMAIN membership'[loop[n].to]
          /\ \A id \in DOMAIN membership'[n] :
               \/ membership'[n][id] = membership'[loop[n].to][id]
               \/ /\ Tied(membership[n], membership[loop[n].to], id)
                  /\ membership'[n][id] = membership[n][id]
                  /\ membership'[loop[n].to][id] = membership[loop[n].to][id]]_vars

\* C33 witness: an exchange between two different nodes has just ended in
\* which each side learnt something: the sender's table now records a dead
\* peer it held alive when it posted, and the receiver holds the same entry.
C33_Witness ==
  \E n \in Members : \E q \in Members \ {n} : \E id \in SelfPeers(n) \cap SelfPeers(q) :
    /\ lastMerge.node = n /\ loop[n].pc = "probe" /\ loop[n].pending = SelfPeers(n)
    /\ membership[n][id].status = "dead"
    /\ fail_counts[n][id] = 0
    /\ membership[q] = membership[n]
    /\ fail_counts[q][id] >= FAIL_THRESHOLD

\* Every table holds every node id it knows alive.
AllAlive ==
  \A n \in Members : \A id \in DOMAIN membership[n] : membership[n][id].status = "alive"

\* C34: probes go on for peers held dead; once the peer is reachable by
\* every node for good, under fair scheduling of the membership loops it is
\* eventually alive in every node's table and stays alive.
C34_DeadPeerRecovers == <>[]AllAlive

\* C34 witness: a node that held the peer dead has probed it again and holds
\* it alive, its fail count back at 0.
C34_Witness ==
  \E n \in Members :
    /\ Recovering \in SelfPeers(n)
    /\ membership[n][Recovering].status = "alive"
    /\ membership[n][Recovering].timestamp = now
    /\ fail_counts[n][Recovering] = 0
    /\ now > Cardinality(Members) - 1
    /\ AllAlive

\* The iteration of node n's run loop ends in this step.
IterationEnds(n) ==
  /\ loop[n].pc \in {"gossip", "reply"} \/ (loop[n].pc = "probe" /\ loop[n].pending = {})
  /\ loop'[n].pc \in {"probe", "stopped"}
  /\ loop'[n] # loop[n]

\* C35: after stop() on a running membership service the flag stays down,
\* the step that ends the iteration in progress ends the run loop, a loop
\* that has ended starts no sweep and no gossip exchange, and the loop does
\* end.
C35_CooperativeShutdown ==
  /\ [][\A n \in Members :
          ~loop[n].running
          => /\ ~loop'[n].running
             /\ IterationEnds(n) => loop'[n].pc = "stopped"
             /\ loop[n].pc = "stopped" => loop'[n] = loop[n]]_vars
  /\ \A n \in Members : ~loop[n].running ~> loop[n].pc = "stopped"

\* C35 witness: a service that merged a gossip table has been stopped and
\* its loop has ended, while the other node's loop runs on.
C35_Witness ==
  \E n \in Members :
    /\ loop[n].pc = "stopped" /\ ~loop[n].running
    /\ lastMerge.node = n /\ used.gossips > 0
    /\ \E m \in Members \ {n} : loop[m].running /\ loop[m].pc # "stopped"

\* The ring index (from 1) of the first position >= the key position, the
\* smallest position when there is none.
FirstAtOrAfter(positions, key_pos) ==
  IF \E i \in DOMAIN positions : positions[i] >= key_pos
  THEN CHOOSE i \in DOMAIN positions :
         /\ positions[i] >= key_pos
         /\ \A j \in DOMAIN positions : positions[j] >= key_pos => i <= j
  ELSE 1

\* C36: the first element of get_replicas(K, N, None) is the node owning
\* the first ring position greater than or equal to hash(K), the smallest
\* position when there is none; a key whose hash equals a ring position is
\* owned by that position's node.
C36_PrimarySelection ==
  (lastCall.op = "get_replicas" /\ lastCall.ring # << >> /\ lastCall.N > 0)
  => /\ lastCall.res # << >>
     /\ lastCall.res[1] = lastCall.ring[FirstAtOrAfter(lastCall.positions, lastCall.key_pos)]

\* C37: the replicate endpoint answers a request lacking key, value or vc
\* with 400 and leaves the local list unchanged; every request holding all
\* three is applied through put_local and answered 200.
C37_ReplicateValidation ==
  lastCall.op = "replicate"
  => IF lastCall.has_key /\ lastCall.has_value /\ lastCall.has_vc
     THEN /\ lastCall.status = 200
          /\ store["A"] = put_local(lastCall.before, lastCall.value, lastCall.vc)
     ELSE /\ lastCall.status = 400
          /\ store["A"] = lastCall.before

\* C38: update is the coordinate-wise max: its result compares GREATER or
\* EQUAL to both inputs, it is commutative and idempotent; increment(vc, n)
\* is strictly GREATER than vc and differs from it only at n, by exactly one.
C38_UpdateIsMax ==
  lastCall.op = "update"
  => /\ \A k \in Nodes :
          /\ VCGet(lastCall.ab, k) >= VCGet(lastCall.a, k)
          /\ VCGet(lastCall.ab, k) >= VCGet(lastCall.b, k)
          /\ VCGet(lastCall.ab, k) \in {VCGet(lastCall.a, k), VCGet(lastCall.b, k)}
     /\ compare(lastCall.ab, lastCall.a) \in {GREATER, EQUAL}
     /\ compare(lastCall.ab, lastCall.b) \in {GREATER, EQUAL}
     /\ lastCall.ab = lastCall.ba
     /\ lastCall.aa = lastCall.a
     /\ compare(lastCall.inc, lastCall.a) = GREATER
     /\ \A k \in Nodes :
          VCGet(lastCall.inc, k) = VCGet(lastCall.a, k) + (IF k = lastCall.n THEN 1 ELSE 0)

\* C38 witness: two concurrent clocks were merged into a clock that is
\* neither of them, and a coordinate the clock did not hold was incremented.
C38_Witness ==
  /\ lastCall.op = "update"
  /\ compare(lastCall.a, lastCall.b) = CONCURRENT
  /\ lastCall.ab \notin {lastCall.a, lastCall.b}
  /\ compare(lastCall.ab, lastCall.a) = GREATER
  /\ lastCall.n \notin DOMAIN lastCall.a
  /\ lastCall.inc[lastCall.n] = 1

\* The versions of the set that no version of the set strictly dominates.
MaximalOf(S) == {v \in S : \A w \in S : compare(v.vc, w.vc) # LESS}

\* C39: whatever the order and the redeliveries, a replica that started
\* empty holds exactly the signatures of the versions delivered so far that
\* none of them strictly dominates; once the whole set is delivered these
\* are the non-dominated versions of the set.
C39_OrderIndependent ==
  lastCall.op = "apply"
  => /\ Sigs(store["A"]) = {_signature(v) : v \in MaximalOf(lastCall.delivered)}
     /\ lastCall.delivered = lastCall.set
        => Sigs(store["A"]) = {_signature(v) : v \in MaximalOf(lastCall.set)}

\* C39 witness: a set of three versions, one of them dominated, has been
\* delivered in full with a redelivery, and two siblings are stored.
C39_Witness ==
  /\ lastCall.op = "apply"
  /\ Cardinality(lastCall.set) = MaxBatch
  /\ lastCall.delivered = lastCall.set
  /\ lastCall.redelivered
  /\ MaximalOf(lastCall.set) # lastCall.set
  /\ Len(store["A"]) = 2
  /\ compare(store["A"][1].vc, store["A"][2].vc) = CONCURRENT

\* History: the (value, vc) pairs client PUTs have created.
CreatedVersions == {Version(x.value, x.vc) : x \in created}

\* Every version a node stores, a handler or background task holds or has
\* in flight, or the last answer carries.
Held ==
  UNION ({Range(store[n]) : n \in Nodes}
         \cup {Range(response.versions)}
         \cup UNION {{Range(ops[o].merged), Range(ops[o].stored_version),
                      Range(ops[o].local_versions), Range(ops[o].remote_versions),
                      Range(ops[o].todo)} : o \in DOMAIN ops}
         \cup UNION {{Range(ops[o].rr[n]) : n \in Nodes} : o \in DOMAIN ops}
         \cup UNION {{Range(ops[o].results[n].vers) : n \in Nodes} : o \in DOMAIN ops})

\* C40: every (value, vc) stored on a node, carried by a GET, read-repair,
\* replicate or repair_once, or returned to a client was created by some
\* client PUT.
C40_NoFabricatedVersions ==
  \A v \in Held : v \in CreatedVersions

\* C40 witness: a PUT of this run failed to replicate, a later GET returned
\* its version, the read-repair tasks have finished and every node stores
\* what the GET returned.
C40_Witness ==
  /\ response.kind = "get" /\ response.ok
  /\ \E i \in 1..Len(response.versions) : response.versions[i].value > 0
  /\ \E o \in DOMAIN ops : ops[o].kind = "put" /\ ops[o].pc = "done" /\ ~ops[o].success
  /\ \E o \in DOMAIN ops :
       ops[o].kind = "get" /\ ops[o].pc = "done" /\ \A n \in Nodes : ops[o].rr[n] = << >>
  /\ \A n \in Nodes : Sigs(store[n]) = Sigs(response.versions)

===========================================================================
